---- MODULE Spec2Model ----
(***************************************************************************)
(* A model of pytest-cases' parametrization core:                          *)
(*   src/pytest_cases/common_pytest.py          (ids, decomposition,       *)
(*                                               cartesian product)        *)
(*   src/pytest_cases/case_parametrizer_new.py  (collection and binding)   *)
(*                                                                         *)
(* Python values are tagged records, so that the dynamic type tests of the *)
(* code (`is None`, isinstance(v, ParameterSet), is_lazy_value) are        *)
(* explicit.  A call either returns a value or raises an exception.        *)
(***************************************************************************)
EXTENDS Integers, Sequences, FiniteSets, TLC

VARIABLES
    pc,          \* "call": the call of `call` is about to run; "done": it has run
    call,        \* the function called and its arguments
    outcome,     \* Pending, Return(value) or Raise(exception type)
    heap,        \* contents of the caller's list objects that the callee can alias
    host_attrs,  \* attributes set on host modules/classes: <<host, name>> -> producer
    warnings,    \* the warnings emitted by the call that ran last
    called       \* the case functions whose body has been run

vars == <<pc, call, outcome, heap, host_attrs, warnings, called>>

----------------------------------------------------------------------------
(* Bounds of the model *)

MaxNames == 2
MaxArity == 3
MaxEntries == 2

----------------------------------------------------------------------------
(* Python values *)

None == [tag |-> "None"]
PyInt(n) == [tag |-> "int", v |-> n]
PyStr(s) == [tag |-> "str", v |-> s]
PyTuple(items) == [tag |-> "tuple", items |-> items]
PyList(items) == [tag |-> "list", items |-> items]
ParameterSet(values, id, marks) ==
    [tag |-> "ParameterSet", values |-> values, id |-> id, marks |-> marks]

Pending == [tag |-> "pending"]
Return(v) == [tag |-> "return", val |-> v]
Raise(e) == [tag |-> "raise", exc |-> e]

Range(s) == {s[i] : i \in DOMAIN s}
SeqsUpTo(S, n) == UNION {[1..k -> S] : k \in 0..n}

----------------------------------------------------------------------------
(* ParameterSet api (pytest 3.x+ branch) *)

is_marked_parameter_value(v) == v.tag = "ParameterSet"
get_marked_parameter_marks(v) == v.marks
get_marked_parameter_values(v) == v.values
get_marked_parameter_id(v) == v.id

(* len(x): tuples and lists are sized, numbers and None are not *)
HasLen(x) == x.tag \in {"tuple", "list"}
PyLen(x) == Len(x.items)

(* Return(<<id, marks, value>>), or the IndexError of argvalue[0] on an     *)
(* empty values tuple.                                                      *)
extract_pset_info_single_bare_marks_list(nbnames, argvalue) ==
    IF is_marked_parameter_value(argvalue)
    THEN LET _id == get_marked_parameter_id(argvalue)
             marks == get_marked_parameter_marks(argvalue)
             values == get_marked_parameter_values(argvalue)
         IN  IF nbnames = 1
             THEN IF PyLen(values) = 0
                  THEN Raise("IndexError")
                  ELSE Return(<<_id, marks, values.items[1]>>)
             ELSE Return(<<_id, marks, values>>)
    ELSE Return(<<None, PyList(<<>>), argvalue>>)

extract_pset_info_single_never_unwraps(nbnames, argvalue) ==
    IF is_marked_parameter_value(argvalue)
    THEN Return(<<get_marked_parameter_id(argvalue),
                  get_marked_parameter_marks(argvalue),
                  get_marked_parameter_values(argvalue)>>)
    ELSE Return(<<None, None, argvalue>>)

extract_pset_info_single(nbnames, argvalue) ==
    IF is_marked_parameter_value(argvalue)
    THEN LET _id == get_marked_parameter_id(argvalue)
             marks == get_marked_parameter_marks(argvalue)
             values == get_marked_parameter_values(argvalue)
         IN  IF nbnames = 1
             THEN IF PyLen(values) = 0
                  THEN Raise("IndexError")
                  ELSE Return(<<_id, marks, values.items[1]>>)
             ELSE Return(<<_id, marks, values>>)
    ELSE Return(<<None, None, argvalue>>)

(* One iteration of the loop of extract_parameterset_info on entry v:       *)
(* Return(<<_pid, _pmark, _pvalue>>) or the exception that ends the loop.   *)
extract_parameterset_info_step_unchecked(nbnames, v, check_nb) ==
    extract_pset_info_single(nbnames, v)

extract_parameterset_info_step(nbnames, v, check_nb) ==
    LET r == extract_pset_info_single(nbnames, v)
    IN  IF r.tag = "raise" THEN r
        ELSE IF check_nb /\ nbnames > 1
             THEN IF ~HasLen(r.val[3]) THEN Raise("TypeError")
                  ELSE IF PyLen(r.val[3]) # nbnames THEN Raise("ValueError")
                  ELSE r
             ELSE r

(* extract_parameterset_info: Return(<<pids, pmarks, pvalues>>) (three      *)
(* lists), or the exception of the first entry whose iteration raises; a    *)
(* string given as argnames is a TypeError.                                 *)
extract_parameterset_info(argnames, argvalues, check_nb) ==
    IF argnames.tag = "str" THEN Raise("TypeError")
    ELSE
    LET nbnames == PyLen(argnames)
        step(i) == extract_parameterset_info_step(nbnames, argvalues[i], check_nb)
        bad == {i \in DOMAIN argvalues : step(i).tag = "raise"}
    IN  IF bad # {}
        THEN step(CHOOSE i \in bad : \A j \in bad : i <= j)
        ELSE Return(<<[i \in DOMAIN argvalues |-> step(i).val[1]],
                      [i \in DOMAIN argvalues |-> step(i).val[2]],
                      [i \in DOMAIN argvalues |-> step(i).val[3]]>>)

----------------------------------------------------------------------------
(* Inputs of the decomposer *)

Marks == {"m1", "m2"}
ExplicitIds == {None, PyStr("x")}
ArgName(i) == <<"a", "b", "c", "d", "e">>[i]
ArgNames(n) == PyList([i \in 1..n |-> ArgName(i)])
ValuesOfLen(n) == [i \in 1..n |-> PyInt(i)]
BareEntries == {PyInt(7)} \cup {PyTuple(ValuesOfLen(n)) : n \in 0..MaxArity}
AnnotatedEntries ==
    {ParameterSet(PyTuple(ValuesOfLen(n)), id, PyTuple(marks)) :
        n \in 0..MaxArity, id \in ExplicitIds, marks \in {<<>>, <<"m1", "m2">>}}
RawEntries == BareEntries \cup AnnotatedEntries

DecomposeCalls ==
    {[fn |-> "extract_pset_info_single", nbnames |-> n, argvalue |-> v] :
        n \in 1..MaxNames, v \in RawEntries}
    \cup
    {[fn |-> "extract_parameterset_info", argnames |-> an, argvalues |-> vs,
      check_nb |-> c] :
        an \in {ArgNames(n) : n \in 1..MaxNames} \cup {PyStr("a,b")},
        vs \in SeqsUpTo(RawEntries, MaxEntries), c \in BOOLEAN}

NoHeap == <<>>
NoAttrs == <<>>

InitDecompose ==
    /\ pc = "call"
    /\ call \in DecomposeCalls
    /\ outcome = Pending
    /\ heap = NoHeap
    /\ host_attrs = NoAttrs
    /\ warnings = <<>>
    /\ called = {}

ExtractPsetInfoSingle ==
    /\ pc = "call"
    /\ call.fn = "extract_pset_info_single"
    /\ outcome' = extract_pset_info_single(call.nbnames, call.argvalue)
    /\ pc' = "done"
    /\ UNCHANGED <<call, heap, host_attrs, warnings, called>>

ExtractParametersetInfo ==
    /\ pc = "call"
    /\ call.fn = "extract_parameterset_info"
    /\ outcome' = extract_parameterset_info(call.argnames, call.argvalues, call.check_nb)
    /\ pc' = "done"
    /\ UNCHANGED <<call, heap, host_attrs, warnings, called>>

NextDecompose == ExtractPsetInfoSingle \/ ExtractParametersetInfo

SpecDecompose == InitDecompose /\ [][NextDecompose]_vars

----------------------------------------------------------------------------
(* Claims about the decomposer *)

DoneCall(fn) == pc = "done" /\ call.fn = fn

(* The value of a raw entry once unwrapped from its annotation *)
Unwrapped(v) == IF is_marked_parameter_value(v) THEN v.values ELSE v
ArityDiffers(v, n) == HasLen(Unwrapped(v)) /\ PyLen(Unwrapped(v)) # n

(* The entries of a decomposition call, and its number of names *)
CallEntries ==
    IF call.fn = "extract_pset_info_single" THEN <<call.argvalue>> ELSE call.argvalues
CallNbNames ==
    IF call.fn = "extract_pset_info_single" THEN call.nbnames
    ELSE IF call.argnames.tag = "list" THEN PyLen(call.argnames) ELSE 0

C6_Original ==
    (DoneCall("extract_pset_info_single") /\ ~is_marked_parameter_value(call.argvalue))
    => outcome = Return(<<None, PyList(<<>>), call.argvalue>>)

(* C6, amended: a bare entry decomposes to (None, None, rawEntry): no       *)
(* explicit id, no marks object at all (None, not an empty list), and the   *)
(* entry itself unchanged as value, for every nbNames.                      *)
C6_BareEntry ==
    (DoneCall("extract_pset_info_single") /\ ~is_marked_parameter_value(call.argvalue))
    => outcome = Return(<<None, None, call.argvalue>>)

C6_Witness ==
    /\ DoneCall("extract_pset_info_single")
    /\ call.nbnames = 2
    /\ call.argvalue = PyTuple(ValuesOfLen(2))
    /\ outcome.tag = "return"

(* C7: an annotated entry with at least one value decomposes to its own id, *)
(* its own marks, and its value: the first element of its values when       *)
(* nbNames = 1, the values tuple itself otherwise.                          *)
C7_AnnotatedEntry ==
    (/\ DoneCall("extract_pset_info_single")
     /\ is_marked_parameter_value(call.argvalue)
     /\ PyLen(call.argvalue.values) > 0)
    => /\ outcome.tag = "return"
       /\ outcome.val[1] = call.argvalue.id
       /\ outcome.val[2] = call.argvalue.marks
       /\ call.nbnames = 1 => outcome.val[3] = call.argvalue.values.items[1]
       /\ call.nbnames > 1 =>
              /\ outcome.val[3].tag = "tuple"
              /\ outcome.val[3].items = call.argvalue.values.items

C7_Witness ==
    /\ DoneCall("extract_pset_info_single")
    /\ call.nbnames = 1
    /\ call.argvalue = ParameterSet(PyTuple(<<PyInt(1)>>), PyStr("x"), PyTuple(<<"m1", "m2">>))
    /\ outcome = Return(<<PyStr("x"), PyTuple(<<"m1", "m2">>), PyInt(1)>>)

----------------------------------------------------------------------------
(* Cartesian product *)

(* Lazy values (pytest_cases.common_pytest_lazy_values): a deferred call of *)
(* valuegetter; as_lazy_items_list(n) gives its n lazily-indexed items      *)
(* without calling valuegetter.                                             *)
LazyValue(valuegetter, id, marks) ==
    [tag |-> "lazy_value", valuegetter |-> valuegetter, id |-> id, marks |-> marks]
LazyTupleItem(host, item) == [tag |-> "lazy_tuple_item", host |-> host, item |-> item]
is_lazy_value(v) == v.tag = "lazy_value"
as_lazy_items_list(lv, nb_names) == [i \in 1..nb_names |-> LazyTupleItem(lv, i - 1)]

(* pytest.param with the values argvalues and the marks `marks` *)
make_marked_parameter_value(argvalues, marks) ==
    ParameterSet(argvalues, None, PyTuple(marks))

(* The names of one dimension, given as a list of names *)
get_param_argnames_as_list(argnames) == argnames.items

(* list(x) of a tuple or list; other values of the model are not iterable *)
IsIterable(x) == x.tag \in {"tuple", "list"}

(* The body of the loop of _cart_product_pytest up to the product: the      *)
(* marks and the values that entry x contributes,                           *)
(* Return(<<x_marks_lst, x_value_lst>>), or the exception raised.           *)
cart_product_entry_ids_allowed(nb_names, x) ==
    LET r == extract_pset_info_single(nb_names, x)
    IN  IF r.tag = "raise" THEN r
        ELSE LET x_marks == r.val[2]
                 x_value == r.val[3]
                 x_marks_lst == IF x_marks # None THEN x_marks.items ELSE <<>>
             IN  IF nb_names > 1
                 THEN IF is_lazy_value(x_value)
                      THEN Return(<<x_marks_lst, as_lazy_items_list(x_value, nb_names)>>)
                      ELSE IF IsIterable(x_value)
                      THEN Return(<<x_marks_lst, x_value.items>>)
                      ELSE Raise("TypeError")
                 ELSE Return(<<x_marks_lst, <<x_value>>>>)

cart_product_entry_lazy_whole(nb_names, x) ==
    LET r == extract_pset_info_single(nb_names, x)
    IN  IF r.tag = "raise" THEN r
        ELSE LET x_id == r.val[1]
                 x_marks == r.val[2]
                 x_value == r.val[3]
                 x_marks_lst == IF x_marks # None THEN x_marks.items ELSE <<>>
             IN  IF x_id # None THEN Raise("ValueError")
                 ELSE IF nb_names > 1 /\ ~is_lazy_value(x_value)
                 THEN IF IsIterable(x_value)
                      THEN Return(<<x_marks_lst, x_value.items>>)
                      ELSE Raise("TypeError")
                 ELSE Return(<<x_marks_lst, <<x_value>>>>)

cart_product_entry(nb_names, x) ==
    LET r == extract_pset_info_single(nb_names, x)
    IN  IF r.tag = "raise" THEN r
        ELSE LET x_id == r.val[1]
                 x_marks == r.val[2]
                 x_value == r.val[3]
                 x_marks_lst == IF x_marks # None THEN x_marks.items ELSE <<>>
             IN  IF x_id # None THEN Raise("ValueError")
                 ELSE IF nb_names > 1
                 THEN IF is_lazy_value(x_value)
                      THEN Return(<<x_marks_lst, as_lazy_items_list(x_value, nb_names)>>)
                      ELSE IF IsIterable(x_value)
                      THEN Return(<<x_marks_lst, x_value.items>>)
                      ELSE Raise("TypeError")
                 ELSE Return(<<x_marks_lst, <<x_value>>>>)

(* `for m, p in sub_product: result.append((x_marks_lst + m, x_value_lst + p))` *)
cart_product_combine_marks_reversed(x, sub_product) ==
    [k \in DOMAIN sub_product |-> <<sub_product[k][1] \o x[1], x[2] \o sub_product[k][2]>>]

cart_product_combine(x, sub_product) ==
    [k \in DOMAIN sub_product |-> <<x[1] \o sub_product[k][1], x[2] \o sub_product[k][2]>>]

(* The rows that the loop `for x in argvalues[0]` appends to result, xs     *)
(* being the entries still to be handled: Return(rows) or the exception of  *)
(* the first entry that raises.  has_sub tells that a sub product exists.   *)
RECURSIVE cart_product_loop_sub_major(_, _, _, _)
cart_product_loop_sub_major(nb_names, xs, has_sub, sub_product) ==
    IF ~has_sub
    THEN IF Len(xs) = 0 THEN Return(<<>>)
         ELSE LET x == cart_product_entry(nb_names, xs[1])
                  rest == cart_product_loop_sub_major(nb_names, Tail(xs), has_sub, sub_product)
              IN  IF x.tag = "raise" THEN x
                  ELSE IF rest.tag = "raise" THEN rest
                  ELSE Return(<<x.val>> \o rest.val)
    ELSE LET es == [i \in DOMAIN xs |-> cart_product_entry(nb_names, xs[i])]
             bad == {i \in DOMAIN xs : es[i].tag = "raise"}
         IN  IF bad # {} THEN es[CHOOSE i \in bad : \A j \in bad : i <= j]
             ELSE Return([k \in 1..(Len(xs) * Len(sub_product)) |->
                     LET i == ((k - 1) % Len(xs)) + 1
                         j == ((k - 1) \div Len(xs)) + 1
                     IN  <<es[i].val[1] \o sub_product[j][1],
                           es[i].val[2] \o sub_product[j][2]>>])

RECURSIVE cart_product_loop(_, _, _, _)
cart_product_loop(nb_names, xs, has_sub, sub_product) ==
    IF Len(xs) = 0 THEN Return(<<>>)
    ELSE LET x == cart_product_entry(nb_names, xs[1])
         IN  IF x.tag = "raise" THEN x
             ELSE LET rest == cart_product_loop(nb_names, Tail(xs), has_sub, sub_product)
                      rows == IF has_sub THEN cart_product_combine(x.val, sub_product)
                              ELSE <<x.val>>
                  IN  IF rest.tag = "raise" THEN rest
                      ELSE Return(rows \o rest.val)

(* _cart_product_pytest: Return(list of <<marks, values>>) or the exception *)
(* raised; the sub product of the later dimensions is built first.          *)
RECURSIVE _cart_product_pytest(_, _)
_cart_product_pytest(argnames_lists, argvalues) ==
    LET sub_product == IF Len(argvalues) > 1
                       THEN _cart_product_pytest(Tail(argnames_lists), Tail(argvalues))
                       ELSE Return(<<>>)
    IN  IF sub_product.tag = "raise" THEN sub_product
        ELSE IF Len(argvalues) = 0 THEN Raise("IndexError")
        ELSE cart_product_loop(Len(argnames_lists[1]), argvalues[1],
                               Len(argvalues) > 1, sub_product.val)

(* Concatenation of a list of lists *)
RECURSIVE Flatten(_)
Flatten(lists) == IF Len(lists) = 0 THEN <<>> ELSE lists[1] \o Flatten(Tail(lists))

(* cart_product_pytest: Return(<<argnames_list, argvalues_prod>>) or the    *)
(* exception raised.                                                        *)
cart_product_pytest(argnames, argvalues) ==
    LET argnames_lists == [d \in DOMAIN argnames |->
                               IF PyLen(argnames[d]) > 0
                               THEN get_param_argnames_as_list(argnames[d]) ELSE <<>>]
        prod == _cart_product_pytest(argnames_lists, argvalues)
    IN  IF prod.tag = "raise" THEN prod
        ELSE Return(<<Flatten(argnames_lists),
                      [k \in DOMAIN prod.val |->
                          IF Len(prod.val[k][1]) > 0
                          THEN make_marked_parameter_value(PyTuple(prod.val[k][2]),
                                                           prod.val[k][1])
                          ELSE PyTuple(prod.val[k][2])]>>)

(* Inputs of the product: up to MaxDims dimensions of one or two names,     *)
(* holding up to MaxProductEntries raw entries in all.                      *)

MaxDims == 3
MaxProductEntries == 4

(* The raw entry of each kind for a dimension of nb names *)
EntryKinds == {"bare", "marked", "special", "odd"}
DimEntry(nb, kind) ==
    IF nb = 1
    THEN CASE kind = "bare" -> PyInt(1)
           [] kind = "marked" -> ParameterSet(PyTuple(<<PyInt(2)>>), None, PyTuple(<<"m1">>))
           [] kind = "special" -> ParameterSet(PyTuple(<<PyInt(3)>>), PyStr("x"), PyTuple(<<"m2">>))
           [] kind = "odd" -> PyTuple(ValuesOfLen(2))
    ELSE CASE kind = "bare" -> PyTuple(ValuesOfLen(nb))
           [] kind = "marked" -> ParameterSet(PyTuple(ValuesOfLen(nb)), None, PyTuple(<<"m2", "m1">>))
           [] kind = "special" -> LazyValue("f", None, <<>>)
           [] kind = "odd" -> PyTuple(ValuesOfLen(nb + 1))

(* The shapes <<number of names, number of entries>> of at most d           *)
(* dimensions holding at most n entries in all, an empty dimension being    *)
(* counted as one entry                                                     *)
RECURSIVE ProductShapes(_, _)
ProductShapes(d, n) ==
    IF d = 0 \/ n = 0 THEN {<<>>}
    ELSE {<<>>} \cup
         UNION {{<<<<nb, l>>>> \o rest :
                     rest \in ProductShapes(d - 1, n - (IF l = 0 THEN 1 ELSE l))} :
                    nb \in {1, 2}, l \in 0..n}

RECURSIVE ShapeEntries(_)
ShapeEntries(shape) ==
    IF Len(shape) = 0 THEN 0 ELSE shape[1][2] + ShapeEntries(Tail(shape))

ProductCall(shape, kinds) ==
    [fn |-> "cart_product_pytest",
     argnames |-> [d \in DOMAIN shape |-> ArgNames(shape[d][1])],
     argvalues |-> [d \in DOMAIN shape |->
                       [i \in 1..shape[d][2] |->
                           DimEntry(shape[d][1],
                                    kinds[ShapeEntries(SubSeq(shape, 1, d - 1)) + i])]]]

InitProduct ==
    /\ pc = "call"
    /\ \E shape \in ProductShapes(MaxDims, MaxProductEntries) \ {<<>>} :
           \E kinds \in [1..ShapeEntries(shape) -> EntryKinds] :
               call = ProductCall(shape, kinds)
    /\ outcome = Pending
    /\ heap = NoHeap
    /\ host_attrs = NoAttrs
    /\ warnings = <<>>
    /\ called = {}

CartProductPytest ==
    /\ pc = "call"
    /\ call.fn = "cart_product_pytest"
    /\ outcome' = cart_product_pytest(call.argnames, call.argvalues)
    /\ pc' = "done"
    /\ UNCHANGED <<call, heap, host_attrs, warnings, called>>

NextProduct == CartProductPytest

SpecProduct == InitProduct /\ [][NextProduct]_vars

----------------------------------------------------------------------------
(* Claims about the cartesian product *)

(* The dimensions of the call, and what it returned *)
NbDims == Len(call.argvalues)
DimSize(d) == Len(call.argvalues[d])
DimNbNames(d) == PyLen(call.argnames[d])
ReturnedNames == outcome.val[1]
ReturnedProduct == outcome.val[2]
CombinationValues(c) == IF is_marked_parameter_value(c) THEN c.values.items ELSE c.items
CombinationMarks(c) == IF is_marked_parameter_value(c) THEN c.marks.items ELSE <<>>

(* Product of the sizes of the dimensions from d on *)
RECURSIVE SizeFrom(_)
SizeFrom(d) == IF d > NbDims THEN 1 ELSE DimSize(d) * SizeFrom(d + 1)

(* The entry of dimension d chosen by the k-th combination when the first   *)
(* dimension varies slowest                                                 *)
ChosenIndex(k, d) == (((k - 1) \div SizeFrom(d + 1)) % DimSize(d)) + 1
ChosenEntry(k, d) == call.argvalues[d][ChosenIndex(k, d)]

(* The explicit id and the marks of a raw entry, and the values it stands for *)
EntryId(x) == IF is_marked_parameter_value(x) THEN x.id ELSE None
EntryMarks(x) == IF is_marked_parameter_value(x) THEN x.marks.items ELSE <<>>
EntryValues(nb, x) ==
    LET v == IF is_marked_parameter_value(x)
             THEN IF nb = 1 THEN x.values.items[1] ELSE x.values
             ELSE x
    IN  IF nb > 1
        THEN IF v.tag = "lazy_value" THEN [i \in 1..nb |-> LazyTupleItem(v, i - 1)]
             ELSE v.items
        ELSE <<v>>

(* C1: a product that is returned has as many combinations as the product  *)
(* of the numbers of raw entries of its dimensions, and lists them with the *)
(* first dimension varying slowest: the k-th combination holds the values   *)
(* of the entries chosen by writing k - 1 in the mixed radix of the         *)
(* dimension sizes, first dimension most significant.                       *)
C1_FullCrossProduct ==
    (DoneCall("cart_product_pytest") /\ outcome.tag = "return") =>
        /\ Len(ReturnedProduct) = SizeFrom(1)
        /\ \A k \in DOMAIN ReturnedProduct :
               CombinationValues(ReturnedProduct[k]) =
                   Flatten([d \in 1..NbDims |-> EntryValues(DimNbNames(d), ChosenEntry(k, d))])

(* Two dimensions of two entries each, in the order 1-1, 1-2, 2-1, 2-2 *)
C1_Witness ==
    /\ DoneCall("cart_product_pytest")
    /\ call.argnames = <<ArgNames(1), ArgNames(2)>>
    /\ call.argvalues = <<<<DimEntry(1, "bare"), DimEntry(1, "odd")>>,
                          <<DimEntry(2, "bare"), DimEntry(2, "special")>>>>
    /\ outcome.tag = "return"
    /\ Len(ReturnedProduct) = 4
    /\ ReturnedProduct[2] =
           PyTuple(<<PyInt(1), LazyTupleItem(LazyValue("f", None, <<>>), 0),
                     LazyTupleItem(LazyValue("f", None, <<>>), 1)>>)
    /\ ReturnedProduct[3] = PyTuple(<<PyTuple(ValuesOfLen(2)), PyInt(1), PyInt(2)>>)

(* C2: every combination returned holds exactly one value per name of the   *)
(* flattened argument-name list, and a product with a dimension of n > 1    *)
(* names holding an entry whose value has not exactly n items is not        *)
(* returned but ends in an error.                                           *)
C2_OneValuePerName ==
    DoneCall("cart_product_pytest") =>
        /\ outcome.tag = "return" =>
               \A k \in DOMAIN ReturnedProduct :
                   Len(CombinationValues(ReturnedProduct[k])) = Len(ReturnedNames)
        /\ (\E d \in 1..NbDims : \E i \in 1..DimSize(d) :
                DimNbNames(d) > 1 /\ ArityDiffers(call.argvalues[d][i], DimNbNames(d)))
               => outcome.tag = "raise"

(* The product grouped left-first: the product of all dimensions but the    *)
(* last, each row of it then extended by every entry of the last dimension. *)
RECURSIVE LeftProduct(_)
LeftProduct(n) ==
    IF n = 0 THEN <<<<(<<>>), (<<>>)>>>>
    ELSE LET left == LeftProduct(n - 1)
             size == DimSize(n)
         IN  [k \in 1..(Len(left) * size) |->
                 LET row == left[((k - 1) \div size) + 1]
                     x == call.argvalues[n][((k - 1) % size) + 1]
                 IN  <<row[1] \o EntryMarks(x), row[2] \o EntryValues(DimNbNames(n), x)>>]

(* C3: in a product that is returned, the marks of each combination are the *)
(* marks of its chosen entries, concatenated in dimension order with        *)
(* duplicates kept, and they are the marks the left-first grouping          *)
(* ((D1 x D2) x D3) gives the same combination.                             *)
C3_MarksConcatenated ==
    (DoneCall("cart_product_pytest") /\ outcome.tag = "return") =>
        /\ Len(ReturnedProduct) = Len(LeftProduct(NbDims))
        /\ \A k \in DOMAIN ReturnedProduct :
               /\ CombinationMarks(ReturnedProduct[k]) =
                      Flatten([d \in 1..NbDims |-> EntryMarks(ChosenEntry(k, d))])
               /\ CombinationMarks(ReturnedProduct[k]) = LeftProduct(NbDims)[k][1]
               /\ CombinationValues(ReturnedProduct[k]) = LeftProduct(NbDims)[k][2]

(* Three dimensions with the marks m1 / m2 m1 / m1 *)
C3_Witness ==
    /\ DoneCall("cart_product_pytest")
    /\ NbDims = 3
    /\ call.argvalues[1] = <<DimEntry(1, "marked")>>
    /\ call.argvalues[2] = <<DimEntry(2, "bare"), DimEntry(2, "marked")>>
    /\ call.argvalues[3] = <<DimEntry(1, "marked")>>
    /\ outcome.tag = "return"
    /\ CombinationMarks(ReturnedProduct[1]) = <<"m1", "m1">>
    /\ CombinationMarks(ReturnedProduct[2]) = <<"m1", "m2", "m1", "m1">>

(* C4: a product in which some entry of some dimension carries an explicit  *)
(* id ends in an error and returns nothing.                                 *)
C4_ExplicitIdForbidden ==
    (/\ DoneCall("cart_product_pytest")
     /\ \E d \in 1..NbDims : \E i \in 1..DimSize(d) : EntryId(call.argvalues[d][i]) # None)
    => outcome.tag = "raise"

(* The only explicit id is on the second entry of the last of three         *)
(* dimensions.                                                              *)
C4_Witness ==
    /\ DoneCall("cart_product_pytest")
    /\ NbDims = 3
    /\ call.argvalues[1] = <<DimEntry(2, "bare")>>
    /\ call.argvalues[2] = <<DimEntry(1, "marked")>>
    /\ call.argvalues[3] = <<DimEntry(1, "bare"), DimEntry(1, "special")>>
    /\ outcome = Raise("ValueError")

----------------------------------------------------------------------------
(* Test ids *)

PyFunction(name) == [tag |-> "function", name |-> name]
PyObject(name) == [tag |-> "object", name |-> name]

(* "-".join(strs) *)
RECURSIVE JoinDash(_)
JoinDash(strs) ==
    IF Len(strs) = 0 THEN ""
    ELSE IF Len(strs) = 1 THEN strs[1]
    ELSE strs[1] \o "-" \o JoinDash(Tail(strs))

(* pytest's _idval without idfn and config: the text of a number or string, *)
(* otherwise the argument name followed by the (0-based) index.             *)
mini_idval(val, argname, idx) ==
    IF val.tag = "int" THEN ToString(val.v)
    ELSE IF val.tag = "str" THEN val.v
    ELSE IF val.tag = "None" THEN "None"
    ELSE argname \o ToString(idx)

(* zip(argvalues, argnames) stops at the shorter of the two *)
mini_idvalset(argnames, argvalues, idx) ==
    LET n == IF Len(argnames) < Len(argvalues) THEN Len(argnames) ELSE Len(argvalues)
    IN  JoinDash([k \in 1..n |-> mini_idval(argvalues[k], argnames[k], idx)])

(* Return(list of ids), or the exception raised *)
make_test_ids_from_param_values(param_names, param_values) ==
    IF param_names.tag = "str" THEN Raise("TypeError")
    ELSE IF ~HasLen(param_names) THEN Raise("TypeError")
    ELSE IF param_values.tag = "None" THEN Raise("TypeError")
    ELSE
    LET nb_params == PyLen(param_names)
        names == param_names.items
        vals == param_values.items
    IN  IF nb_params = 0 THEN Raise("ValueError")
        ELSE IF nb_params = 1
        THEN Return(PyList([i \in DOMAIN vals |->
                        PyStr(mini_idvalset(names, <<vals[i]>>, i - 1))]))
        ELSE IF \E i \in DOMAIN vals : ~HasLen(vals[i]) \/ PyLen(vals[i]) # nb_params
        THEN LET i == CHOOSE i \in DOMAIN vals :
                          /\ ~HasLen(vals[i]) \/ PyLen(vals[i]) # nb_params
                          /\ \A j \in 1..(i - 1) : HasLen(vals[j]) /\ PyLen(vals[j]) = nb_params
             IN  IF HasLen(vals[i]) THEN Raise("ValueError") ELSE Raise("TypeError")
        ELSE Return(PyList([i \in DOMAIN vals |->
                        PyStr(mini_idvalset(names, vals[i].items, i - 1))]))

(* A callable given as global ids, applied to one value *)
CallIdFunction(f, v) == PyStr(f.name \o "_" \o mini_idval(v, "v", 0))

(* The ids before the ids of pytest.param are applied: Return(<<p_ids,      *)
(* aliased>>), aliased telling that p_ids is the precomputed_ids object     *)
(* itself and not a new list; or the exception raised.                      *)
make_test_ids_base(global_ids, argnames, argvalues, precomputed_ids) ==
    IF global_ids.tag # "None"
    THEN IF global_ids.tag = "list"
         THEN Return(<<global_ids.items, FALSE>>)
         ELSE IF argvalues.tag = "None" THEN Raise("TypeError")
         ELSE Return(<<[i \in DOMAIN argvalues.items |->
                            CallIdFunction(global_ids, argvalues.items[i])], FALSE>>)
    ELSE IF precomputed_ids.tag # "None"
         THEN IF argnames.tag # "None" \/ argvalues.tag # "None"
              THEN Raise("ValueError")
              ELSE Return(<<precomputed_ids.items, TRUE>>)
         ELSE LET r == make_test_ids_from_param_values(argnames, argvalues)
              IN  IF r.tag = "raise" THEN r ELSE Return(<<r.val.items, FALSE>>)

(* The loop `for i, _id in enumerate(id_marks): if _id is not None:         *)
(* p_ids[i] = _id`: <<p_ids after the loop, whether it ran to its end>>;    *)
(* it stops with an IndexError at the first id whose index is not in p_ids. *)
apply_id_marks(p_ids, id_marks) ==
    LET out == {i \in DOMAIN id_marks : id_marks[i] # None /\ i > Len(p_ids)}
        stop == IF out = {} THEN Len(id_marks) + 1
                ELSE CHOOSE i \in out : \A j \in out : i <= j
    IN  <<[i \in DOMAIN p_ids |->
              IF i < stop /\ i <= Len(id_marks) /\ id_marks[i] # None
              THEN id_marks[i] ELSE p_ids[i]],
          out = {}>>

(* make_test_ids: <<outcome, contents of precomputed_ids after the call>> *)
make_test_ids_global_ids_win(global_ids, id_marks, argnames, argvalues, precomputed_ids) ==
    LET base == make_test_ids_base(global_ids, argnames, argvalues, precomputed_ids)
    IN  IF base.tag = "raise" THEN <<base, precomputed_ids>>
        ELSE IF global_ids.tag # "None" THEN <<Return(PyList(base.val[1])), precomputed_ids>>
        ELSE LET done == apply_id_marks(base.val[1], id_marks.items)
                 after == IF base.val[2] THEN PyList(done[1]) ELSE precomputed_ids
             IN  IF done[2] THEN <<Return(PyList(done[1])), after>>
                 ELSE <<Raise("IndexError"), after>>

make_test_ids(global_ids, id_marks, argnames, argvalues, precomputed_ids) ==
    LET base == make_test_ids_base(global_ids, argnames, argvalues, precomputed_ids)
    IN  IF base.tag = "raise" THEN <<base, precomputed_ids>>
        ELSE LET done == apply_id_marks(base.val[1], id_marks.items)
                 after == IF base.val[2] THEN PyList(done[1]) ELSE precomputed_ids
             IN  IF done[2] THEN <<Return(PyList(done[1])), after>>
                 ELSE <<Raise("IndexError"), after>>

(* analyze_parameter_set, called with (argnames, argvalues, ids) or with a  *)
(* pmark holding them: Return(<<p_ids, p_marks, p_values>>) or the          *)
(* exception raised.                                                        *)
analyze_parameter_set(pmark, argnames, argvalues, ids, check_nb) ==
    IF pmark.tag # "None" /\ (argnames.tag # "None" \/ argvalues.tag # "None"
                              \/ ids.tag # "None")
    THEN Raise("ValueError")
    ELSE
    LET names == IF pmark.tag # "None" THEN pmark.param_names ELSE argnames
        values == IF pmark.tag # "None" THEN pmark.param_values ELSE argvalues
        gids == IF pmark.tag # "None" THEN pmark.param_ids ELSE ids
    IN  IF names.tag = "None" \/ values.tag = "None" THEN Raise("TypeError")
        ELSE
        LET info == extract_parameterset_info(names, values.items, check_nb)
        IN  IF info.tag = "raise" THEN info
            ELSE LET p_ids == make_test_ids(gids, PyList(info.val[1]), names,
                                            PyList(info.val[3]), None)[1]
                 IN  IF p_ids.tag = "raise" THEN p_ids
                     ELSE Return(<<p_ids.val, PyList(info.val[2]), PyList(info.val[3])>>)

(* Inputs of the id functions *)

MaxGlobalIds == 3

PMark(names, values, ids) ==
    [tag |-> "pmark", param_names |-> names, param_values |-> values, param_ids |-> ids]

IdToken(i) == PyStr(<<"t1", "t2", "t3", "t4", "t5">>[i])
PrecomputedId(i) == PyStr(<<"p1", "p2", "p3", "p4", "p5">>[i])
GlobalIds ==
    {None, PyFunction("idfn")} \cup {PyList([i \in 1..k |-> IdToken(i)]) : k \in 0..MaxGlobalIds}
IdValues(nb) ==
    IF nb = 1 THEN {PyInt(1), PyInt(2), PyObject("o")}
    ELSE {PyTuple(ValuesOfLen(nb)), PyTuple([i \in 1..nb |-> PyObject("o")]),
          PyTuple(ValuesOfLen(nb + 1))}
IdSources ==
    UNION {{[argnames |-> ArgNames(nb), argvalues |-> PyList(vs), precomputed_ids |-> None] :
               vs \in SeqsUpTo(IdValues(nb), MaxEntries)} : nb \in 1..MaxNames}
    \cup
    {[argnames |-> None, argvalues |-> None,
      precomputed_ids |-> PyList([i \in 1..k |-> PrecomputedId(i)])] : k \in 0..MaxGlobalIds}
    \cup
    {[argnames |-> ArgNames(1), argvalues |-> PyList(<<PyInt(1)>>),
      precomputed_ids |-> PyList(<<PrecomputedId(1)>>)],
     [argnames |-> None, argvalues |-> None, precomputed_ids |-> None]}

MakeTestIdsCalls ==
    {[fn |-> "make_test_ids", global_ids |-> g, id_marks |-> PyList(m),
      argnames |-> src.argnames, argvalues |-> src.argvalues,
      precomputed_ids |-> src.precomputed_ids] :
        g \in GlobalIds, src \in IdSources, m \in SeqsUpTo(ExplicitIds, MaxEntries)}

AxisEntries(nb) ==
    IF nb = 1
    THEN {PyInt(1), PyObject("o"),
          ParameterSet(PyTuple(<<PyInt(2)>>), None, PyTuple(<<"m1">>)),
          ParameterSet(PyTuple(<<PyInt(3)>>), PyStr("x"), PyTuple(<<>>))}
    ELSE {PyTuple(ValuesOfLen(nb)), PyTuple(ValuesOfLen(nb + 1)),
          ParameterSet(PyTuple(ValuesOfLen(nb)), None, PyTuple(<<"m1">>)),
          ParameterSet(PyTuple(ValuesOfLen(nb)), PyStr("x"), PyTuple(<<>>))}

AnalyzeParameterSetCalls ==
    UNION {{[fn |-> "analyze_parameter_set", pmark |-> None, argnames |-> ArgNames(nb),
             argvalues |-> PyList(vs), ids |-> g, check_nb |-> c] :
               vs \in SeqsUpTo(AxisEntries(nb), MaxEntries), g \in GlobalIds,
               c \in BOOLEAN} : nb \in 1..MaxNames}
    \cup
    UNION {{[fn |-> "analyze_parameter_set",
             pmark |-> PMark(ArgNames(nb), PyList(vs), g),
             argnames |-> an, argvalues |-> None, ids |-> None, check_nb |-> TRUE] :
               vs \in SeqsUpTo(AxisEntries(nb), MaxEntries), g \in GlobalIds,
               an \in {None, ArgNames(nb)}} : nb \in 1..MaxNames}

MakeTestIdsHeap(c) ==
    [global_ids |-> c.global_ids, id_marks |-> c.id_marks,
     argvalues |-> c.argvalues, precomputed_ids |-> c.precomputed_ids]

InitIds ==
    /\ pc = "call"
    /\ call \in MakeTestIdsCalls \cup AnalyzeParameterSetCalls
    /\ outcome = Pending
    /\ heap = IF call.fn = "make_test_ids" THEN MakeTestIdsHeap(call) ELSE NoHeap
    /\ host_attrs = NoAttrs
    /\ warnings = <<>>
    /\ called = {}

(* make_test_ids reads global_ids, id_marks and argvalues and writes only   *)
(* p_ids, which is the caller's precomputed_ids list when that is used.     *)
MakeTestIds ==
    /\ pc = "call"
    /\ call.fn = "make_test_ids"
    /\ LET r == make_test_ids(heap.global_ids, heap.id_marks, call.argnames,
                              heap.argvalues, heap.precomputed_ids)
       IN  /\ outcome' = r[1]
           /\ heap' = [heap EXCEPT !.precomputed_ids = r[2]]
    /\ pc' = "done"
    /\ UNCHANGED <<call, host_attrs, warnings, called>>

AnalyzeParameterSet ==
    /\ pc = "call"
    /\ call.fn = "analyze_parameter_set"
    /\ outcome' = analyze_parameter_set(call.pmark, call.argnames, call.argvalues,
                                        call.ids, call.check_nb)
    /\ pc' = "done"
    /\ UNCHANGED <<call, heap, host_attrs, warnings, called>>

NextIds == MakeTestIds \/ AnalyzeParameterSet

SpecIds == InitIds /\ [][NextIds]_vars

----------------------------------------------------------------------------
(* Claims about the test ids *)

(* The identifier that precedence gives combination i when it has no        *)
(* explicit id: the global override if one is supplied (the i-th token of   *)
(* a list that has one, or the callable applied to value i), otherwise the  *)
(* precomputed or value-derived identifier.  NoId when that source has no   *)
(* i-th identifier.                                                         *)
NoId == [tag |-> "no id"]
FallbackId(global_ids, argnames, values, precomputed_ids, i) ==
    IF global_ids.tag = "list"
    THEN IF i <= PyLen(global_ids) THEN global_ids.items[i] ELSE NoId
    ELSE IF precomputed_ids.tag = "list" /\ global_ids.tag = "None"
    THEN IF i <= PyLen(precomputed_ids) THEN precomputed_ids.items[i] ELSE NoId
    ELSE IF i > Len(values) THEN NoId
    ELSE IF global_ids.tag = "function" THEN CallIdFunction(global_ids, values[i])
    ELSE IF PyLen(argnames) = 1
    THEN PyStr(mini_idval(values[i], argnames.items[1], i - 1))
    ELSE PyStr(JoinDash([k \in 1..PyLen(argnames) |->
                   mini_idval(values[i].items[k], argnames.items[k], i - 1)]))

(* The parameter set that analyze_parameter_set analyzes *)
AnalyzedAxis ==
    IF call.pmark.tag # "None"
    THEN [names |-> call.pmark.param_names, entries |-> call.pmark.param_values.items,
          ids |-> call.pmark.param_ids]
    ELSE [names |-> call.argnames, entries |-> call.argvalues.items, ids |-> call.ids]
EntryValue(v, nb) ==
    IF is_marked_parameter_value(v)
    THEN IF nb = 1 THEN v.values.items[1] ELSE v.values
    ELSE v

(* C8: in the list make_test_ids (and analyze_parameter_set) returns, the   *)
(* identifier of combination i is the explicit id of entry i if it has      *)
(* one; otherwise the global override if one is supplied; otherwise the     *)
(* precomputed or value-derived identifier.  Explicit ids of other entries  *)
(* do not change it.                                                        *)
C8_IdPrecedence ==
    /\ (DoneCall("make_test_ids") /\ outcome.tag = "return") =>
          \A i \in DOMAIN call.id_marks.items :
              LET explicit == call.id_marks.items[i]
                  fallback == FallbackId(call.global_ids, call.argnames,
                                         call.argvalues.items, call.precomputed_ids, i)
                  ids == outcome.val.items
              IN  IF explicit # None THEN i \in DOMAIN ids /\ ids[i] = explicit
                  ELSE fallback # NoId => (i \in DOMAIN ids /\ ids[i] = fallback)
    /\ (DoneCall("analyze_parameter_set") /\ outcome.tag = "return") =>
          LET axis == AnalyzedAxis
              nb == PyLen(axis.names)
              values == [i \in DOMAIN axis.entries |-> EntryValue(axis.entries[i], nb)]
          IN  \A i \in DOMAIN axis.entries :
                  LET explicit == EntryId(axis.entries[i])
                      fallback == FallbackId(axis.ids, axis.names, values, None, i)
                      ids == outcome.val[1].items
                  IN  IF explicit # None THEN i \in DOMAIN ids /\ ids[i] = explicit
                      ELSE fallback # NoId => (i \in DOMAIN ids /\ ids[i] = fallback)

(* An explicit id on entry 1 beside a global list: entry 1 takes its own    *)
(* id, entry 2 the second token of the list.                                *)
C8_Witness ==
    /\ DoneCall("make_test_ids")
    /\ call.global_ids = PyList(<<IdToken(1), IdToken(2)>>)
    /\ call.id_marks = PyList(<<PyStr("x"), None>>)
    /\ outcome = Return(PyList(<<PyStr("x"), IdToken(2)>>))

(* C9: a literal list of global ids that does not hold exactly one token    *)
(* per combination is rejected.                                             *)
C9_GlobalIdsLengthChecked ==
    /\ (/\ DoneCall("make_test_ids")
        /\ call.global_ids.tag = "list"
        /\ PyLen(call.global_ids) # PyLen(call.id_marks))
       => outcome.tag = "raise"
    /\ (/\ DoneCall("analyze_parameter_set")
        /\ AnalyzedAxis.ids.tag = "list"
        /\ PyLen(AnalyzedAxis.ids) # Len(AnalyzedAxis.entries))
       => outcome.tag = "raise"

----------------------------------------------------------------------------
(* Binding of cases: case_to_argvalues and get_parametrize_args *)

(* A case function: its identity (name, module, class that hosts it, None   *)
(* for a module-level function), the id and marks of its CaseInfo, its      *)
(* mandatory argument names and its parametrize marks.  A case found in a   *)
(* class is the partial object that _extract_cases_from_module_or_class     *)
(* makes, with its host_class.                                              *)
CaseFunction(name, module, host_class, id, marks, fixturenames, pmarks) ==
    [tag |-> "function", func |-> [name |-> name, module |-> module, host_class |-> host_class],
     id |-> id, marks |-> marks, fixturenames |-> fixturenames, pmarks |-> pmarks]

Partial(func, kwargs) == [tag |-> "partial", func |-> func, kwargs |-> kwargs]
Fixture(name, func) == [tag |-> "fixture", name |-> name, func |-> func]
fixture_ref(name) == [tag |-> "fixture_ref", fixture |-> name]
lazy_value(valuegetter, id, marks) == LazyValue(valuegetter, id, marks)

(* One call of a parametrized function as pytest would make it *)
CallSpec(funcargs, idlist, marks) == [funcargs |-> funcargs, idlist |-> idlist, marks |-> marks]
CallSpecId(c) == JoinDash(c.idlist)

(* Metafunc.parametrize for one parametrize mark: every existing call is    *)
(* extended, in order, by every parameter set of the mark.  `a` is the      *)
(* outcome of the analysis of the mark: (ids, marks, values).               *)
(* Return(calls) or the exception raised.                                   *)
parametrize_calls(calls, pmark, a) ==
    IF a.tag = "raise" THEN a
    ELSE
    LET names == pmark.param_names.items
        ids == a.val[1].items
        marks == a.val[2].items
        values == a.val[3].items
        n == Len(values)
        args(i) == IF Len(names) = 1 THEN <<<<names[1], values[i]>>>>
                   ELSE [k \in DOMAIN names |-> <<names[k], values[i].items[k]>>]
        old == IF Len(calls) = 0 THEN <<CallSpec(<<>>, <<>>, <<>>)>> ELSE calls
    IN  Return([k \in 1..(Len(old) * n) |->
            LET c == old[((k - 1) \div n) + 1]
                i == ((k - 1) % n) + 1
            IN  CallSpec(c.funcargs \o args(i), Append(c.idlist, ids[i].v),
                         c.marks \o (IF marks[i] = None THEN <<>> ELSE marks[i].items))])

parametrize(calls, fixturenames, pmark) ==
    IF ~(Range(pmark.param_names.items) \subseteq Range(fixturenames))
    THEN Raise("Failed")
    ELSE parametrize_calls(calls, pmark, analyze_parameter_set(pmark, None, None, None, TRUE))

(* MiniMetafunc.update_callspecs: Return(_calls) or the exception raised.   *)
(* update_callspecs_rest continues after the mark whose outcome is r.       *)
RECURSIVE update_callspecs(_, _, _)
RECURSIVE update_callspecs_rest(_, _, _)
update_callspecs_rest(r, fixturenames, pmarks) ==
    IF r.tag = "raise" THEN r ELSE update_callspecs(r.val, fixturenames, pmarks)

update_callspecs(calls, fixturenames, pmarks) ==
    IF Len(pmarks) = 0 THEN Return(calls)
    ELSE update_callspecs_rest(parametrize(calls, fixturenames, pmarks[1]),
                               fixturenames, Tail(pmarks))

(* MiniMetafunc(func): Return of its _calls, is_parametrized and            *)
(* required_fixtures, or the exception raised.  r is the outcome of         *)
(* update_callspecs for a parametrized function.                            *)
MiniMetafunc_parametrized(func, r) ==
    IF r.tag = "raise" THEN r
    ELSE IF Len(r.val) = 0 THEN Raise("IndexError")
    ELSE Return([_calls |-> r.val, is_parametrized |-> TRUE,
                 required_fixtures |->
                     Range(func.fixturenames) \
                         {r.val[1].funcargs[k][1] : k \in DOMAIN r.val[1].funcargs}])

MiniMetafunc(func) ==
    IF Len(func.pmarks) > 0
    THEN MiniMetafunc_parametrized(func, update_callspecs(<<>>, func.fixturenames, func.pmarks))
    ELSE Return([_calls |-> <<>>, is_parametrized |-> FALSE,
                 required_fixtures |-> Range(func.fixturenames)])

(* The host on which the fixture of a case is placed: host_cls or host_module *)
CaseHost(case_fun) ==
    IF case_fun.func.host_class # None THEN case_fun.func.host_class
    ELSE PyStr(case_fun.func.module)

(* case_to_argvalues: <<outcome, host attributes after the call>> *)
case_to_argvalues_meta_marks_dropped(case_fun, attrs, meta) ==
    IF meta.tag = "raise" THEN <<meta, attrs>>
    ELSE IF meta.val.required_fixtures = {} /\ ~meta.val.is_parametrized
    THEN <<Return(PyTuple(<<lazy_value(case_fun, case_fun.id, <<>>)>>)), attrs>>
    ELSE <<Raise("NotImplementedError"), attrs>>

case_to_argvalues_meta_overwrites(case_fun, attrs, meta) ==
    IF meta.tag = "raise" THEN <<meta, attrs>>
    ELSE IF meta.val.required_fixtures = {}
    THEN <<Return(PyTuple(<<lazy_value(case_fun, case_fun.id, case_fun.marks)>>)), attrs>>
    ELSE <<Return(PyTuple(<<fixture_ref(case_fun.id)>>)),
           [attrs EXCEPT ![<<CaseHost(case_fun), case_fun.id>>] =
                Fixture(case_fun.id, case_fun.func)]>>

case_to_argvalues_meta_unregisters(case_fun, attrs, meta) ==
    IF meta.tag = "raise" THEN <<meta, attrs>>
    ELSE IF meta.val.required_fixtures = {}
    THEN <<Return(PyTuple(<<lazy_value(case_fun, case_fun.id, case_fun.marks)>>)), attrs>>
    ELSE IF attrs[<<CaseHost(case_fun), case_fun.id>>] = None
    THEN <<Return(PyTuple(<<fixture_ref(case_fun.id)>>)),
           [attrs EXCEPT ![<<CaseHost(case_fun), case_fun.id>>] =
                Fixture(case_fun.id, case_fun.func)]>>
    ELSE <<Raise("NotImplementedError"),
           [attrs EXCEPT ![<<CaseHost(case_fun), case_fun.id>>] = None]>>

case_to_argvalues_meta(case_fun, attrs, meta) ==
    LET case_id == case_fun.id
        case_marks == case_fun.marks
    IN  IF meta.tag = "raise" THEN <<meta, attrs>>
        ELSE IF meta.val.required_fixtures = {}
        THEN IF ~meta.val.is_parametrized
             THEN <<Return(PyTuple(<<lazy_value(case_fun, case_id, case_marks)>>)), attrs>>
             ELSE <<Return(PyTuple([k \in DOMAIN meta.val._calls |->
                        LET c == meta.val._calls[k]
                        IN  lazy_value(Partial(case_fun, c.funcargs),
                                       case_id \o "-" \o CallSpecId(c), c.marks)])),
                    attrs>>
        ELSE LET host == CaseHost(case_fun)
                 existing_fix == attrs[<<host, case_id>>]
                 argvalues_tuple == PyTuple(<<fixture_ref(case_id)>>)
             IN  IF existing_fix = None
                 THEN <<Return(IF Len(case_marks) > 0
                               THEN make_marked_parameter_value(argvalues_tuple, case_marks)
                               ELSE argvalues_tuple),
                        [attrs EXCEPT ![<<host, case_id>>] = Fixture(case_id, case_fun.func)]>>
                 ELSE <<Raise("NotImplementedError"), attrs>>

case_to_argvalues(case_fun, attrs) ==
    case_to_argvalues_meta(case_fun, attrs, MiniMetafunc(case_fun))

(* The case functions whose body case_to_argvalues runs.  It hands case_fun *)
(* to MiniMetafunc, lazy_value, partial and fixture, which keep or inspect  *)
(* the function, and it calls it nowhere.                                   *)
case_to_argvalues_calls_eager(case_fun) == {case_fun.func}

case_to_argvalues_calls(case_fun) == {}

(* Iteration over what case_to_argvalues returned: the items of a tuple,    *)
(* the fields (values, marks, id) of a ParameterSet, which is a namedtuple. *)
PyIter(x) ==
    IF x.tag = "ParameterSet" THEN <<x.values, x.marks, x.id>> ELSE x.items

(* get_parametrize_args: <<outcome, host attributes after the call>> *)
get_parametrize_args_extend_reversed(first, rest) ==
    IF rest[1].tag = "raise" THEN rest
    ELSE <<Return(rest[1].val \o PyIter(first[1].val)), rest[2]>>

get_parametrize_args_extend(first, rest) ==
    IF rest[1].tag = "raise" THEN rest
    ELSE <<Return(PyIter(first[1].val) \o rest[1].val), rest[2]>>

RECURSIVE get_parametrize_args(_, _)
RECURSIVE get_parametrize_args_rest(_, _)
get_parametrize_args_rest(first, cases_funs) ==
    IF first[1].tag = "raise" THEN first
    ELSE get_parametrize_args_extend(first, get_parametrize_args(cases_funs, first[2]))

get_parametrize_args(cases_funs, attrs) ==
    IF Len(cases_funs) = 0 THEN <<Return(<<>>), attrs>>
    ELSE get_parametrize_args_rest(case_to_argvalues(cases_funs[1], attrs), Tail(cases_funs))

(* The case functions whose body get_parametrize_args runs: those that its  *)
(* calls of case_to_argvalues run.                                          *)
get_parametrize_args_calls(cases_funs) ==
    UNION {case_to_argvalues_calls(cases_funs[i]) : i \in DOMAIN cases_funs}

----------------------------------------------------------------------------
(* Collection of cases: get_all_cases *)

(* Modules, classes and the sentinels of the `cases` argument.  The members *)
(* of a module or class are listed in the order of getmembers (by name).    *)
PyModule(name, members) == [tag |-> "module", name |-> name, members |-> members]
PyClass(name, module, line, init, new, members) ==
    [tag |-> "class", name |-> name, module |-> module, line |-> line,
     hasinit |-> init, hasnew |-> new, members |-> members]
AUTO == [tag |-> "AUTO"]
AUTO2 == [tag |-> "AUTO2"]
THIS_MODULE == [tag |-> "THIS_MODULE"]

(* A function as the collector finds it: a case function that has no        *)
(* resolved id yet, with the first line of its code, the id given by @case  *)
(* (None without one), its tags, and whether its class declares it as a     *)
(* staticmethod or classmethod.                                             *)
DeclaredFunction(name, module, line, case_id, tags, static, fixturenames, pmarks) ==
    [tag |-> "function", func |-> [name |-> name, module |-> module, host_class |-> None],
     line |-> line, case_id |-> case_id, tags |-> tags, static |-> static,
     marks |-> <<>>, fixturenames |-> fixturenames, pmarks |-> pmarks]

(* The function or fixture that is parametrized; module is None or the      *)
(* parts of its dotted module name.                                         *)
ParametrizationTarget(module) == [tag |-> "function", module |-> module]
ModuleName(parts) == [tag |-> "modname", parts |-> parts]

(* A predicate given as `filter`: it accepts the functions of these names *)
PyPredicate(accepts) == [tag |-> "predicate", accepts |-> accepts]

(* A warning of class CasesCollectionWarning *)
CasesCollectionWarning(name, hook) == [cls |-> name, hook |-> hook]

(* str.startswith, `in` on strings, '.'.join *)
StartsWith(s, p) == Len(s) >= Len(p) /\ SubSeq(s, 1, Len(p)) = p
Contains(s, sub) == \E i \in 1..(Len(s) - Len(sub) + 1) : SubSeq(s, i, i + Len(sub) - 1) = sub
RECURSIVE JoinDot(_)
JoinDot(strs) ==
    IF Len(strs) = 0 THEN ""
    ELSE IF Len(strs) = 1 THEN strs[1]
    ELSE strs[1] \o "." \o JoinDot(Tail(strs))

safe_isclass(obj) == obj.tag = "class"
callable(obj) == obj.tag \in {"function", "class", "predicate"}
is_case_class(cls, check_name) ==
    safe_isclass(cls) /\ (~check_name \/ Contains(cls.name, "Case"))
is_case_function(f, prefix, check_prefix) ==
    /\ callable(f)
    /\ ~safe_isclass(f)
    /\ f.tag = "function" => (~check_prefix \/ StartsWith(f.func.name, prefix))
    /\ f.tag = "predicate" => ~check_prefix
hasinit(obj) == obj.hasinit
hasnew(obj) == obj.hasnew
get_code_first_line(m) == m.line

(* CaseInfo.get_from(c, create=True, prefix_for_ids=prefix): the case with  *)
(* its id, which defaults to the function name without the prefix.          *)
CaseInfo_get_from(c, prefix_for_ids) ==
    LET name == c.func.name
        id == IF c.case_id # None THEN c.case_id.v
              ELSE IF StartsWith(name, prefix_for_ids)
                   THEN SubSeq(name, Len(prefix_for_ids) + 1, Len(name))
                   ELSE name
    IN  [id |-> id] @@ c

(* re.compile(glob_str.replace("*", ".*")).match(s): the pattern must match *)
(* at the start of s; nothing is said about where the match ends.  The      *)
(* patterns of the model hold letters, digits, "_" and "*" only.            *)
RECURSIVE re_match(_, _)
re_match(glob_str, s) ==
    IF Len(glob_str) = 0 THEN TRUE
    ELSE IF Head(glob_str) = "*"
    THEN \E k \in 0..Len(s) :
             re_match(SubSeq(glob_str, 2, Len(glob_str)), SubSeq(s, k + 1, Len(s)))
    ELSE /\ Len(s) > 0
         /\ Head(s) = Head(glob_str)
         /\ re_match(SubSeq(glob_str, 2, Len(glob_str)), SubSeq(s, 2, Len(s)))

(* The filter made by create_glob_name_filter(glob_str), applied to a case *)
_glob_name_filter(glob_str, case_fun) == re_match(glob_str, case_fun.id)

(* matches_tag_query(c, has_tag=has_tag, filter=filters) where filters is   *)
(* made of the glob filter and of the caller's predicate, when given.       *)
matches_tag_query(c, has_tag, glob, filter) ==
    /\ has_tag # None => has_tag.v \in c.tags
    /\ glob # None => _glob_name_filter(glob.v, c)
    /\ filter # None => c.func.name \in filter.accepts

(* The keys of cases_dct are line numbers or line + i / n: a key is the     *)
(* fraction <<numerator, denominator>>.  cases_dct is the sequence of its   *)
(* <<key, case>> items.                                                     *)
KeyEq(a, b) == a[1] * b[2] = b[1] * a[2]
KeyLess(a, b) == a[1] * b[2] < b[1] * a[2]
dict_set(dct, key, value) ==
    IF \E j \in DOMAIN dct : KeyEq(dct[j][1], key)
    THEN [j \in DOMAIN dct |-> IF KeyEq(dct[j][1], key) THEN <<dct[j][1], value>> ELSE dct[j]]
    ELSE Append(dct, <<key, value>>)

(* [cases_dct[k] for k in sorted(cases_dct.keys())] *)
RECURSIVE sorted_values(_)
sorted_values(dct) ==
    IF Len(dct) = 0 THEN <<>>
    ELSE LET j == CHOOSE j \in DOMAIN dct : \A k \in DOMAIN dct : ~KeyLess(dct[k][1], dct[j][1])
         IN  <<dct[j][2]>> \o sorted_values([k \in 1..(Len(dct) - 1) |->
                                                IF k < j THEN dct[k] ELSE dct[k + 1]])

(* getmembers(container, _of_interest): of a module, the members defined in *)
(* it; of a class, all members; of another object, none, as _of_interest    *)
(* answers False when the object has no __name__.                           *)
getmembers_of_interest(container, is_module) ==
    IF container.tag \notin {"module", "class"} THEN <<>>
    ELSE IF is_module
    THEN SelectSeq(container.members,
                   LAMBDA m : (IF m.tag = "function" THEN m.func.module ELSE m.module)
                                  = container.name)
    ELSE container.members

(* The cases of a nested case class go into cases_dct at line + i / n *)
RECURSIVE add_class_cases(_, _, _, _)
add_class_cases(cases_dct, co_firstlineno, cls_cases, i) ==
    IF i > Len(cls_cases) THEN cases_dct
    ELSE add_class_cases(
             dict_set(cases_dct,
                      <<co_firstlineno * Len(cls_cases) + (i - 1), Len(cls_cases)>>,
                      cls_cases[i]),
             co_firstlineno, cls_cases, i + 1)

(* The function of a class without its self argument: partial(m, cls()),    *)
(* which remembers the class.                                               *)
partial_of_method(m, cls) == [m EXCEPT !.func.host_class = PyStr(cls.name)]

(* extract_cases_from_class and _extract_cases_from_module_or_class:        *)
(* <<outcome, warnings emitted>>.  extract_members is the loop over the     *)
(* members: <<cases_dct, warnings emitted>>.                                *)
RECURSIVE extract_cases_from_class(_, _, _)
RECURSIVE _extract_cases_from_module_or_class(_, _, _)
RECURSIVE extract_members(_, _, _, _, _)
RECURSIVE extract_members_class(_, _, _, _, _, _, _)

extract_members_class(cls, members, case_fun_prefix, cases_dct, warns, co_firstlineno, r) ==
    extract_members(cls, members, case_fun_prefix,
                    add_class_cases(cases_dct, co_firstlineno, r[1].val, 1), warns \o r[2])

extract_members(cls, members, case_fun_prefix, cases_dct, warns) ==
    IF Len(members) = 0 THEN <<cases_dct, warns>>
    ELSE IF is_case_class(Head(members), TRUE)
    THEN extract_members_class(cls, Tail(members), case_fun_prefix, cases_dct, warns,
                               get_code_first_line(Head(members)),
                               extract_cases_from_class(Head(members), TRUE, case_fun_prefix))
    ELSE IF is_case_function(Head(members), case_fun_prefix, TRUE)
    THEN IF cls # None /\ Head(members).static
         THEN extract_members(cls, Tail(members), case_fun_prefix, cases_dct, warns)
         ELSE extract_members(cls, Tail(members), case_fun_prefix,
                              dict_set(cases_dct, <<get_code_first_line(Head(members)), 1>>,
                                       IF cls # None THEN partial_of_method(Head(members), cls)
                                       ELSE Head(members)),
                              warns)
    ELSE extract_members(cls, Tail(members), case_fun_prefix, cases_dct, warns)

extracted_cases(r) == <<Return(sorted_values(r[1])), r[2]>>

_extract_cases_from_module_or_class(module, cls, case_fun_prefix) ==
    IF (cls = None) = (module = None) THEN <<Raise("ValueError"), <<>>>>
    ELSE extracted_cases(
             extract_members(cls,
                             getmembers_of_interest(IF cls # None THEN cls ELSE module,
                                                    module # None),
                             case_fun_prefix, <<>>, <<>>))

extract_cases_from_class_hooks_ignored(cls, check_name, case_fun_prefix) ==
    IF is_case_class(cls, check_name)
    THEN _extract_cases_from_module_or_class(None, cls, case_fun_prefix)
    ELSE <<Return(<<>>), <<>>>>

extract_cases_from_class(cls, check_name, case_fun_prefix) ==
    IF is_case_class(cls, check_name)
    THEN IF hasinit(cls)
         THEN <<Return(<<>>), <<CasesCollectionWarning(cls.name, "__init__")>>>>
         ELSE IF hasnew(cls)
         THEN <<Return(<<>>), <<CasesCollectionWarning(cls.name, "__new__")>>>>
         ELSE _extract_cases_from_module_or_class(None, cls, case_fun_prefix)
    ELSE <<Return(<<>>), <<>>>>

(* import_module(name, package) over the importable modules sys_modules.    *)
(* A relative name needs a package.                                         *)
import_module(name, package, sys_modules) ==
    IF StartsWith(name, ".") /\ (package = None \/ package.v = "")
    THEN Raise("TypeError")
    ELSE LET absolute == IF StartsWith(name, ".") THEN package.v \o name ELSE name
         IN  IF \E m \in sys_modules : m.name = absolute
             THEN Return(CHOOSE m \in sys_modules : m.name = absolute)
             ELSE Raise("ImportError")

(* import_default_cases_module(f, alt_name): the module, or the exception; *)
(* the ValueError names the module that was tried.                          *)
default_cases_module_name(f, alt_name) ==
    IF alt_name
    THEN JoinDot(SubSeq(f.module.parts, 1, Len(f.module.parts) - 1)) \o ".cases_"
             \o SubSeq(f.module.parts[Len(f.module.parts)], 6,
                       Len(f.module.parts[Len(f.module.parts)]))
    ELSE JoinDot(f.module.parts) \o "_cases"

import_default_cases_module_result(r, cases_module_name) ==
    IF r.tag = "raise" /\ r.exc = "ImportError"
    THEN [tag |-> "raise", exc |-> "ValueError", names |-> {cases_module_name}]
    ELSE r

import_default_cases_module(f, alt_name, sys_modules) ==
    IF f.module = None THEN Raise("AttributeError")
    ELSE IF alt_name /\ ~StartsWith(f.module.parts[Len(f.module.parts)], "test_")
    THEN Raise("AssertionError")
    ELSE import_default_cases_module_result(
             import_module(default_cases_module_name(f, alt_name), None, sys_modules),
             default_cases_module_name(f, alt_name))

(* extract_cases_from_module: <<outcome, warnings emitted>> *)
extract_cases_from_imported(r, case_fun_prefix) ==
    IF r.tag = "raise" THEN <<r, <<>>>>
    ELSE _extract_cases_from_module_or_class(r.val, None, case_fun_prefix)

extract_cases_from_module(module, package_name, case_fun_prefix, sys_modules) ==
    IF module.tag = "str"
    THEN extract_cases_from_imported(import_module(module.v, package_name, sys_modules),
                                     case_fun_prefix)
    ELSE _extract_cases_from_module_or_class(module, None, case_fun_prefix)

(* The module that stands for a provider which is neither a class nor a     *)
(* callable: Return(module reference) or the exception raised.              *)
provider_module(c, parametrization_target, caller_module_name, sys_modules) ==
    IF c = AUTO THEN import_default_cases_module(parametrization_target, FALSE, sys_modules)
    ELSE IF c = AUTO2 THEN import_default_cases_module(parametrization_target, TRUE, sys_modules)
    ELSE IF c = THIS_MODULE \/ c = PyStr(".") THEN Return(caller_module_name)
    ELSE Return(c)

(* The loop of get_all_cases over the providers: <<outcome, warnings>> *)
RECURSIVE collect_providers(_, _, _, _, _, _, _, _)
RECURSIVE collect_next(_, _, _, _, _, _, _, _, _)

collect_next(new_cases, cases, parametrization_target, prefix, caller_module_name, parent_pkg_name, sys_modules, cases_funs, warns) ==
    IF new_cases[1].tag = "raise" THEN <<new_cases[1], warns \o new_cases[2]>>
    ELSE collect_providers(cases, parametrization_target, prefix, caller_module_name,
                           parent_pkg_name, sys_modules, cases_funs \o new_cases[1].val,
                           warns \o new_cases[2])

collect_module(m, parent_pkg_name, prefix, sys_modules) ==
    IF m.tag = "raise" THEN <<m, <<>>>>
    ELSE extract_cases_from_module(m.val, parent_pkg_name, prefix, sys_modules)

collect_provider(c, parametrization_target, prefix, caller_module_name, parent_pkg_name, sys_modules) ==
    IF safe_isclass(c)
    THEN extract_cases_from_class(c, FALSE, prefix)
    ELSE IF callable(c)
    THEN IF is_case_function(c, prefix, FALSE)
         THEN <<Return(<<c>>), <<>>>>
         ELSE <<Raise("ValueError"), <<>>>>
    ELSE collect_module(provider_module(c, parametrization_target, caller_module_name,
                                        sys_modules),
                        parent_pkg_name, prefix, sys_modules)

collect_providers(cases, parametrization_target, prefix, caller_module_name, parent_pkg_name, sys_modules, cases_funs, warns) ==
    IF Len(cases) = 0 THEN <<Return(cases_funs), warns>>
    ELSE collect_next(collect_provider(Head(cases), parametrization_target, prefix,
                                       caller_module_name, parent_pkg_name, sys_modules),
                      Tail(cases), parametrization_target, prefix, caller_module_name,
                      parent_pkg_name, sys_modules, cases_funs, warns)

(* The last statement of get_all_cases: every case gets its CaseInfo, and   *)
(* the cases that match the query are kept, in the order they have.         *)
filter_cases(r, prefix, has_tag, glob, filter) ==
    IF r[1].tag = "raise" THEN r
    ELSE <<Return(SelectSeq([i \in DOMAIN r[1].val |-> CaseInfo_get_from(r[1].val[i], prefix)],
                            LAMBDA c : matches_tag_query(c, has_tag, glob, filter))),
           r[2]>>

(* The case functions whose body get_all_cases runs.  It instantiates the  *)
(* case classes and hands the case functions to partial, CaseInfo and the   *)
(* filters, and it calls none of them.                                      *)
get_all_cases_calls(cases) == {}

(* get_all_cases: <<outcome, warnings emitted>> *)
get_all_cases(parametrization_target, cases, prefix, glob, has_tag, filter, sys_modules) ==
    IF prefix.tag # "str" THEN <<Raise("TypeError"), <<>>>>
    ELSE IF glob # None /\ glob.tag # "str" THEN <<Raise("TypeError"), <<>>>>
    ELSE IF filter # None /\ ~callable(filter) THEN <<Raise("TypeError"), <<>>>>
    ELSE filter_cases(
             collect_providers(
                 IF cases.tag = "str" THEN <<cases>>
                 ELSE IF cases.tag \in {"tuple", "list"} THEN cases.items
                 ELSE <<cases>>,
                 parametrization_target, prefix.v,
                 IF parametrization_target.module = None THEN None
                 ELSE PyStr(JoinDot(parametrization_target.module.parts)),
                 IF parametrization_target.module = None THEN None
                 ELSE PyStr(JoinDot(SubSeq(parametrization_target.module.parts, 1,
                                           Len(parametrization_target.module.parts) - 1))),
                 sys_modules, <<>>, <<>>),
             prefix.v, has_tag, glob, filter)

(* The modules of the model.  tests.test_foo holds the parametrized test,   *)
(* tests.test_foo_cases and tests.cases_foo are its default cases modules.  *)
MaxProviders == 2

TestModuleParts == <<"tests", "test_foo">>
CasesModuleName == "tests.test_foo_cases"
NoFixtures == <<>>
NoPMarks == <<>>

case_top == DeclaredFunction("case_top", CasesModuleName, 3, None, {"fast"}, FALSE,
                             NoFixtures, NoPMarks)
case_after == DeclaredFunction("case_after", CasesModuleName, 40, PyStr("last"), {}, FALSE,
                               NoFixtures, NoPMarks)
case_imported == DeclaredFunction("case_imported", "other_mod", 2, None, {}, FALSE,
                                  NoFixtures, NoPMarks)
helper == DeclaredFunction("helper", CasesModuleName, 45, None, {}, FALSE,
                           NoFixtures, NoPMarks)
case_n1 == DeclaredFunction("case_n1", CasesModuleName, 11, None, {}, FALSE,
                            NoFixtures, NoPMarks)
case_n2 == DeclaredFunction("case_n2", CasesModuleName, 13, None, {"fast"}, FALSE,
                            NoFixtures, NoPMarks)
case_s == DeclaredFunction("case_s", CasesModuleName, 15, None, {}, TRUE,
                           NoFixtures, NoPMarks)
case_i == DeclaredFunction("case_i", CasesModuleName, 22, None, {}, FALSE,
                           NoFixtures, NoPMarks)
case_w == DeclaredFunction("case_w", CasesModuleName, 27, None, {}, FALSE,
                           NoFixtures, NoPMarks)
case_p == DeclaredFunction("case_p", CasesModuleName, 31, None, {}, FALSE,
                           NoFixtures, NoPMarks)
case_here == DeclaredFunction("case_here", "tests.test_foo", 7, None, {}, FALSE,
                              NoFixtures, NoPMarks)
case_alt == DeclaredFunction("case_alt", "tests.cases_foo", 4, None, {}, FALSE,
                             NoFixtures, NoPMarks)

CasesNested == PyClass("CasesNested", CasesModuleName, 10, FALSE, FALSE,
                       <<case_n1, case_n2, case_s>>)
CaseInit == PyClass("CaseInit", CasesModuleName, 20, TRUE, FALSE, <<case_i>>)
CaseNew == PyClass("CaseNew", CasesModuleName, 25, FALSE, TRUE, <<case_w>>)
Plain == PyClass("Plain", CasesModuleName, 30, FALSE, FALSE, <<case_p>>)

CasesModule ==
    PyModule(CasesModuleName,
             <<CaseInit, CaseNew, CasesNested, Plain,
               case_after, case_imported, case_top, helper>>)
TestModule == PyModule("tests.test_foo", <<case_here>>)

(* A module where a case function has the first line of a case class *)
LinesModuleName == "tests.lines_cases"
case_i1 == DeclaredFunction("case_i1", LinesModuleName, 6, None, {}, FALSE,
                            NoFixtures, NoPMarks)
case_i2 == DeclaredFunction("case_i2", LinesModuleName, 8, None, {}, FALSE,
                            NoFixtures, NoPMarks)
case_same == DeclaredFunction("case_same", LinesModuleName, 5, None, {}, FALSE,
                              NoFixtures, NoPMarks)
case_next == DeclaredFunction("case_next", LinesModuleName, 9, None, {}, FALSE,
                              NoFixtures, NoPMarks)
CasesInner == PyClass("CasesInner", LinesModuleName, 5, FALSE, FALSE, <<case_i1, case_i2>>)
LinesModule == PyModule(LinesModuleName, <<CasesInner, case_next, case_same>>)
AltCasesModule == PyModule("tests.cases_foo", <<case_alt>>)

(* What can be imported: everything, or the test module alone *)
SysModules == {{TestModule, CasesModule, AltCasesModule}, {TestModule}}

Targets == {ParametrizationTarget(ModuleName(TestModuleParts)), ParametrizationTarget(None)}

(* The providers that are given alone, and those that are given in a list *)
ListedProviders == {case_after, case_top, CaseInit, CaseNew, CasesNested, PyInt(5)}
Providers ==
    ListedProviders
    \cup {CasesModule, LinesModule, PyStr(CasesModuleName), PyStr("."), PyStr("missing_mod"),
          AUTO, AUTO2, THIS_MODULE, helper, Plain, None}
CasesArguments ==
    Providers \cup {PyList(ps) : ps \in SeqsUpTo(ListedProviders, MaxProviders)}

Prefixes == {PyStr("case_"), PyInt(0)}
Globs == {None, PyStr("*"), PyStr("top"), PyStr("*1"), PyStr("n"), PyInt(1)}
HasTags == {None, PyStr("fast")}
Filters == {None, PyPredicate({"case_top", "case_n2", "case_after"}), PyInt(1)}

GetAllCasesCall(parametrization_target, cases, prefix, glob, has_tag, filter, sys_modules) ==
    [fn |-> "get_all_cases", parametrization_target |-> parametrization_target,
     cases |-> cases, prefix |-> prefix, glob |-> glob, has_tag |-> has_tag,
     filter |-> filter, sys_modules |-> sys_modules]

CollectCalls ==
    {GetAllCasesCall(t, cases, PyStr("case_"), None, None, None, m) :
         t \in Targets, cases \in CasesArguments, m \in SysModules}
    \cup {GetAllCasesCall(ParametrizationTarget(ModuleName(TestModuleParts)), cases,
                          prefix, glob, has_tag, filter,
                          {TestModule, CasesModule, AltCasesModule}) :
              cases \in CasesArguments, prefix \in Prefixes, glob \in Globs,
              has_tag \in HasTags, filter \in Filters}

InitCollect ==
    /\ pc = "idle"
    /\ call \in CollectCalls
    /\ outcome = Pending
    /\ heap = NoHeap
    /\ host_attrs = <<>>
    /\ warnings = <<>>
    /\ called = {}

(* One call of get_all_cases: its outcome and the warnings it emitted *)
GetAllCasesResult(c, r) ==
    /\ call' = c
    /\ outcome' = r[1]
    /\ warnings' = r[2]
    /\ called' = called \cup get_all_cases_calls(c.cases)
    /\ pc' = "done"
    /\ UNCHANGED <<heap, host_attrs>>

GetAllCases ==
    /\ pc = "idle"
    /\ call.fn = "get_all_cases"
    /\ GetAllCasesResult(call, get_all_cases(call.parametrization_target, call.cases,
                                             call.prefix, call.glob, call.has_tag,
                                             call.filter, call.sys_modules))

NextCollect == GetAllCases

SpecCollect == InitCollect /\ [][NextCollect]_vars

(* The cases of the model *)

MaxCases == 2

CaseModule == "cases_mod"
CaseClass == PyStr("CasesCls")
CaseNames == {"case_a", "case_b"}
CaseIds == {"a", "b"}
CaseMarks == {<<>>, <<"slow">>}
AxisX == PMark(PyList(<<"x">>),
               PyList(<<PyInt(2), ParameterSet(PyTuple(<<PyInt(3)>>), None, PyTuple(<<"m1">>))>>),
               None)
AxisY == PMark(PyList(<<"y">>),
               PyList(<<ParameterSet(PyTuple(<<PyInt(5)>>), None, PyTuple(<<"m2">>)), PyInt(6)>>),
               None)
(* <<mandatory argument names, parametrize marks>> *)
CaseSignatures ==
    {<<(<<>>), (<<>>)>>, <<(<<"fix">>), (<<>>)>>,
     <<(<<"x">>), (<<AxisX>>)>>, <<(<<"x", "fix">>), (<<AxisX>>)>>,
     <<(<<"x", "y">>), (<<AxisX, AxisY>>)>>}
(* Two functions of the same id matter where a fixture is created: the      *)
(* cases that need no fixture are all named case_a.                         *)
ModuleCases ==
    {c \in {CaseFunction(n, CaseModule, None, id, m, sig[1], sig[2]) :
                n \in CaseNames, id \in CaseIds, m \in CaseMarks, sig \in CaseSignatures} :
        c.func.name = "case_a" \/ "fix" \in Range(c.fixturenames)}
ClassCases ==
    {CaseFunction(n, CaseModule, CaseClass, "a", <<>>, <<"fix">>, <<>>) : n \in CaseNames}
    \cup {CaseFunction("case_a", CaseModule, CaseClass, "a", <<>>, <<>>, <<>>)}
Cases == ModuleCases \cup ClassCases
ListedCases ==
    {CaseFunction("case_a", CaseModule, None, "a", <<>>, <<>>, <<>>),
     CaseFunction("case_b", CaseModule, None, "b", <<"slow">>, <<"x">>, <<AxisX>>),
     CaseFunction("case_a", CaseModule, None, "a", <<"slow">>, <<"fix">>, <<>>)}

(* The hosts start without any attribute named like a case id, or the       *)
(* module has an attribute named "a" that is not a fixture made here.       *)
AttrKeys == {<<CaseHost(c), c.id>> : c \in Cases}
EmptyAttrs == [k \in AttrKeys |-> None]
InitialAttrs ==
    {EmptyAttrs, [EmptyAttrs EXCEPT ![<<PyStr(CaseModule), "a">>] = PyObject("attribute")]}

InitBind ==
    /\ pc = "idle"
    /\ call = [fn |-> "none"]
    /\ outcome = Pending
    /\ heap = NoHeap
    /\ host_attrs \in InitialAttrs
    /\ warnings = <<>>
    /\ called = {}

CaseToArgvalues ==
    /\ pc \in {"idle", "done"}
    /\ \E case_fun \in Cases :
           LET r == case_to_argvalues(case_fun, host_attrs)
           IN  /\ call' = [fn |-> "case_to_argvalues", case_fun |-> case_fun,
                           attrs_before |-> host_attrs]
               /\ outcome' = r[1]
               /\ host_attrs' = r[2]
               /\ called' = called \cup case_to_argvalues_calls(case_fun)
    /\ pc' = "done"
    /\ warnings' = <<>>
    /\ UNCHANGED heap

GetParametrizeArgs ==
    /\ pc \in {"idle", "done"}
    /\ \E cases_funs \in SeqsUpTo(ListedCases, MaxCases) :
           LET r == get_parametrize_args(cases_funs, host_attrs)
           IN  /\ call' = [fn |-> "get_parametrize_args", cases_funs |-> cases_funs,
                           attrs_before |-> host_attrs]
               /\ outcome' = r[1]
               /\ host_attrs' = r[2]
               /\ called' = called \cup get_parametrize_args_calls(cases_funs)
    /\ pc' = "done"
    /\ warnings' = <<>>
    /\ UNCHANGED heap

(* get_all_cases between two bindings: it reads no host attribute and sets *)
(* none.                                                                    *)
ListedCollectCalls ==
    {GetAllCasesCall(ParametrizationTarget(ModuleName(TestModuleParts)), cases,
                     PyStr("case_"), None, None, None,
                     {TestModule, CasesModule, AltCasesModule}) :
         cases \in {CasesModule, PyList(<<case_after, CaseInit>>), PyInt(5)}}

GetAllCasesListed ==
    /\ pc \in {"idle", "done"}
    /\ \E c \in ListedCollectCalls :
           GetAllCasesResult(c, get_all_cases(c.parametrization_target, c.cases, c.prefix,
                                              c.glob, c.has_tag, c.filter, c.sys_modules))

(* The test run, which follows the collection: pytest asks one of the lazy *)
(* values of the argvalues for its value, and the lazy value calls its      *)
(* value getter: the case function, or the partial that wraps it.           *)
ReturnedArgvalues ==
    IF call.fn = "case_to_argvalues" THEN PyIter(outcome.val) ELSE outcome.val
valuegetter_function(valuegetter) ==
    IF valuegetter.tag = "partial" THEN valuegetter.func.func ELSE valuegetter.func

LazyValueGet ==
    /\ pc = "done"
    /\ call.fn \in {"case_to_argvalues", "get_parametrize_args"}
    /\ outcome.tag = "return"
    /\ \E i \in DOMAIN ReturnedArgvalues :
           /\ ReturnedArgvalues[i].tag = "lazy_value"
           /\ called' = called \cup {valuegetter_function(ReturnedArgvalues[i].valuegetter)}
    /\ pc' = "consumed"
    /\ UNCHANGED <<call, outcome, heap, host_attrs, warnings>>

NextBind == CaseToArgvalues \/ GetParametrizeArgs \/ GetAllCasesListed \/ LazyValueGet

SpecBind == InitBind /\ [][NextBind]_vars

----------------------------------------------------------------------------
(* Claims about the binding of cases *)

(* C10: binding a case that needs no external input and is not              *)
(* parametrized returns exactly one lazy value, which wraps the case        *)
(* function itself and carries the case's id and the case's marks, and      *)
(* changes no attribute of any host (creates no binding).                   *)
C10_PlainCaseOneLazyValue ==
    (/\ DoneCall("case_to_argvalues")
     /\ Len(call.case_fun.fixturenames) = 0
     /\ Len(call.case_fun.pmarks) = 0)
    => /\ outcome.tag = "return"
       /\ outcome.val.tag = "tuple"
       /\ Len(outcome.val.items) = 1
       /\ outcome.val.items[1].tag = "lazy_value"
       /\ outcome.val.items[1].valuegetter = call.case_fun
       /\ outcome.val.items[1].id = call.case_fun.id
       /\ outcome.val.items[1].marks = call.case_fun.marks
       /\ host_attrs = call.attrs_before

(* A marked plain case bound after a fixture has been created for another *)
C10_Witness ==
    /\ DoneCall("case_to_argvalues")
    /\ call.case_fun = CaseFunction("case_a", CaseModule, None, "a", <<"slow">>, <<>>, <<>>)
    /\ \E k \in AttrKeys : host_attrs[k].tag = "fixture"
    /\ outcome = Return(PyTuple(<<lazy_value(call.case_fun, "a", <<"slow">>)>>))

(* The case of a case_to_argvalues call: the names its own parametrization  *)
(* covers, and whether it needs a fixture.                                  *)
ParametrizedNames(case_fun) ==
    UNION {Range(case_fun.pmarks[j].param_names.items) : j \in DOMAIN case_fun.pmarks}
NeedsFixture(case_fun) == Range(case_fun.fixturenames) \ ParametrizedNames(case_fun) # {}
IsParametrized(case_fun) == Len(case_fun.pmarks) > 0

(* The combinations of the axes of a parametrized case, the first axis      *)
(* varying slowest; every axis of the model binds one name.                 *)
AxisSize(case_fun, j) == Len(case_fun.pmarks[j].param_values.items)
RECURSIVE AxesSizeFrom(_, _)
AxesSizeFrom(case_fun, j) ==
    IF j > Len(case_fun.pmarks) THEN 1
    ELSE AxisSize(case_fun, j) * AxesSizeFrom(case_fun, j + 1)
CombinationIndex(case_fun, k, j) ==
    (((k - 1) \div AxesSizeFrom(case_fun, j + 1)) % AxisSize(case_fun, j)) + 1
CombinationEntry(case_fun, k, j) ==
    case_fun.pmarks[j].param_values.items[CombinationIndex(case_fun, k, j)]
CombinationArgs(case_fun, k) ==
    [j \in DOMAIN case_fun.pmarks |->
        <<case_fun.pmarks[j].param_names.items[1], EntryValue(CombinationEntry(case_fun, k, j), 1)>>]
CombinationId(case_fun, k) ==
    JoinDash([j \in DOMAIN case_fun.pmarks |->
        ToString(EntryValue(CombinationEntry(case_fun, k, j), 1).v)])
RECURSIVE CombinationMarksFrom(_, _, _)
CombinationMarksFrom(case_fun, k, j) ==
    IF j > Len(case_fun.pmarks) THEN <<>>
    ELSE EntryMarks(CombinationEntry(case_fun, k, j)) \o CombinationMarksFrom(case_fun, k, j + 1)

(* C11: binding a parametrized case that needs no fixture returns one lazy  *)
(* value per combination of the case's own axes, in product order, each     *)
(* with the id "<case id>-<combination id>" and with the marks of the case  *)
(* followed by the marks of the combination.                                *)
C11_ParametrizedCaseMarks ==
    (/\ DoneCall("case_to_argvalues")
     /\ IsParametrized(call.case_fun)
     /\ ~NeedsFixture(call.case_fun))
    => outcome = Return(PyTuple([k \in 1..AxesSizeFrom(call.case_fun, 1) |->
                     lazy_value(Partial(call.case_fun, CombinationArgs(call.case_fun, k)),
                                call.case_fun.id \o "-" \o CombinationId(call.case_fun, k),
                                call.case_fun.marks
                                    \o CombinationMarksFrom(call.case_fun, k, 1))]))

(* The attribute of the host of a case under the id of the case *)
CaseKey(case_fun) == <<CaseHost(case_fun), case_fun.id>>

(* The one argvalue that stands for the fixture of a case: the reference    *)
(* to the fixture named by the case id, carrying the marks of the case.     *)
MarkedFixtureRef(case_fun) ==
    IF Len(case_fun.marks) = 0 THEN fixture_ref(case_fun.id)
    ELSE make_marked_parameter_value(PyTuple(<<fixture_ref(case_fun.id)>>), case_fun.marks)

(* C12: binding a case that needs a fixture, parametrized or not, when no   *)
(* attribute of its host has the case id yet, returns a sequence of exactly *)
(* one element: the reference to the fixture named by the case id, which    *)
(* carries the case's marks.                                                *)
C12_FixtureCaseOneReference ==
    (/\ DoneCall("case_to_argvalues")
     /\ NeedsFixture(call.case_fun)
     /\ call.attrs_before[CaseKey(call.case_fun)] = None)
    => /\ outcome.tag = "return"
       /\ PyIter(outcome.val) = <<MarkedFixtureRef(call.case_fun)>>

(* C13: binding again a case whose fixture is already on its host (same    *)
(* id, same function, same host) succeeds and leaves the attributes of the  *)
(* hosts as they were: the fixture is reused, not created again.            *)
C13_RebindSucceeds ==
    (/\ DoneCall("case_to_argvalues")
     /\ NeedsFixture(call.case_fun)
     /\ call.attrs_before[CaseKey(call.case_fun)]
            = Fixture(call.case_fun.id, call.case_fun.func))
    => /\ outcome.tag = "return"
       /\ host_attrs = call.attrs_before

C15_TableAppendOnly ==
    [][/\ \A k \in AttrKeys : host_attrs[k] # None => host_attrs'[k] = host_attrs[k]
       /\ \A k \in AttrKeys :
              host_attrs'[k] # host_attrs[k] => host_attrs'[k].tag = "fixture"
       /\ (call'.fn = "case_to_argvalues" /\ outcome'.tag = "raise")
              => host_attrs' = host_attrs
       /\ call'.fn = "get_all_cases" => host_attrs' = host_attrs]_vars

C15_Witness ==
    /\ DoneCall("case_to_argvalues")
    /\ outcome.tag = "raise"
    /\ \E k \in AttrKeys : host_attrs[k] # None /\ host_attrs[k].tag = "fixture"
    /\ \E k \in AttrKeys : host_attrs[k] = None

C17_CollectInDeclarationOrder ==
    (DoneCall("get_all_cases") /\ outcome.tag = "return")
    => \A i, j \in DOMAIN outcome.val :
           (i < j /\ outcome.val[i].func.module = outcome.val[j].func.module)
           => outcome.val[i].line <= outcome.val[j].line

(* The ids of the lazy values of a case that needs no fixture, and of a     *)
(* list of such cases.                                                      *)
LazyIdsOfCase(case_fun) ==
    IF IsParametrized(case_fun)
    THEN [k \in 1..AxesSizeFrom(case_fun, 1) |->
              case_fun.id \o "-" \o CombinationId(case_fun, k)]
    ELSE <<case_fun.id>>
RECURSIVE LazyIdsOfCases(_)
LazyIdsOfCases(cases_funs) ==
    IF Len(cases_funs) = 0 THEN <<>>
    ELSE LazyIdsOfCase(Head(cases_funs)) \o LazyIdsOfCases(Tail(cases_funs))

(* C18: the argvalues of a list of cases that need no fixture are the lazy  *)
(* values of the first case, then those of the second, and so on, and hold  *)
(* no fixture reference: a plain case a and a case b parametrized over x in *)
(* {2, 3} give the lazy values of ids a, b-2, b-3 in that order.            *)
C18_ArgvaluesAreConcatenation ==
    (/\ DoneCall("get_parametrize_args")
     /\ \A i \in DOMAIN call.cases_funs : ~NeedsFixture(call.cases_funs[i]))
    => /\ outcome.tag = "return"
       /\ \A i \in DOMAIN outcome.val : outcome.val[i].tag = "lazy_value"
       /\ [i \in DOMAIN outcome.val |-> outcome.val[i].id] = LazyIdsOfCases(call.cases_funs)
       /\ host_attrs = call.attrs_before

C18_Witness ==
    /\ DoneCall("get_parametrize_args")
    /\ Len(call.cases_funs) = 2
    /\ ~IsParametrized(call.cases_funs[1]) /\ ~NeedsFixture(call.cases_funs[1])
    /\ IsParametrized(call.cases_funs[2]) /\ ~NeedsFixture(call.cases_funs[2])
    /\ outcome.tag = "return"
    /\ [i \in DOMAIN outcome.val |-> outcome.val[i].id] = <<"a", "b-2", "b-3">>
    /\ \A i \in DOMAIN outcome.val : outcome.val[i].tag = "lazy_value"

(* The providers of a get_all_cases call, those that are classes with a     *)
(* constructor of their own, and the calls whose prefix, glob and filter    *)
(* are of the types get_all_cases accepts.                                  *)
ProvidersOf(cases) == IF cases.tag = "list" THEN cases.items ELSE <<cases>>
DeclaresConstructor(c) == c.tag = "class" /\ (c.hasinit \/ c.hasnew)
IsOtherProvider(c) == ~DeclaresConstructor(c)
ConstructorWarning(c) ==
    CasesCollectionWarning(c.name, IF c.hasinit THEN "__init__" ELSE "__new__")
WellTypedQuery(c) ==
    /\ c.prefix.tag = "str"
    /\ c.glob = None \/ c.glob.tag = "str"
    /\ c.filter = None \/ c.filter.tag = "predicate"

(* C19: a class given as a provider that declares __init__ or __new__ is    *)
(* skipped with a warning and not with an error: the call returns, one      *)
(* warning names each such class, no returned case belongs to one, and the  *)
(* list is the one the other providers give alone, whether they are listed  *)
(* before or after the class.                                               *)
C19_ConstructorClassSkipped ==
    (/\ DoneCall("get_all_cases")
     /\ WellTypedQuery(call)
     /\ \E i \in DOMAIN ProvidersOf(call.cases) : DeclaresConstructor(ProvidersOf(call.cases)[i]))
    => /\ outcome.tag = "return"
       /\ warnings = [i \in DOMAIN SelectSeq(ProvidersOf(call.cases), DeclaresConstructor) |->
                         ConstructorWarning(SelectSeq(ProvidersOf(call.cases),
                                                      DeclaresConstructor)[i])]
       /\ \A i \in DOMAIN outcome.val :
              \A j \in DOMAIN ProvidersOf(call.cases) :
                  DeclaresConstructor(ProvidersOf(call.cases)[j])
                  => outcome.val[i].func.host_class # PyStr(ProvidersOf(call.cases)[j].name)
       /\ outcome = get_all_cases(call.parametrization_target,
                                  PyList(SelectSeq(ProvidersOf(call.cases), IsOtherProvider)),
                                  call.prefix, call.glob, call.has_tag, call.filter,
                                  call.sys_modules)[1]

(* A class with __init__ listed before a case function, which is collected *)
C19_Witness ==
    /\ DoneCall("get_all_cases")
    /\ call.cases = PyList(<<CaseInit, case_top>>)
    /\ warnings = <<CasesCollectionWarning("CaseInit", "__init__")>>
    /\ outcome.tag = "return"
    /\ Len(outcome.val) = 1
    /\ outcome.val[1].func.name = "case_top"

(* C20: get_all_cases raises for every provider that is neither a class, a  *)
(* callable, a module nor a module name nor one of the module sentinels: a  *)
(* number never counts as a provider of zero cases.                         *)
IsSupportedShape(c) ==
    \/ c.tag \in {"class", "function", "module", "str"}
    \/ c \in {AUTO, AUTO2, THIS_MODULE}
C20_UnsupportedProviderRaises ==
    (/\ DoneCall("get_all_cases")
     /\ \E i \in DOMAIN ProvidersOf(call.cases) : ~IsSupportedShape(ProvidersOf(call.cases)[i]))
    => outcome.tag = "raise"

(* C21: for a test of the module tests.test_foo, AUTO stands for the module *)
(* tests.test_foo_cases and AUTO2 for tests.cases_foo; when neither can be  *)
(* imported, get_all_cases raises an error that names both modules.         *)
C21_AutoDiscoveryNamesBoth ==
    (/\ DoneCall("get_all_cases")
     /\ WellTypedQuery(call)
     /\ call.cases \in {AUTO, AUTO2}
     /\ call.parametrization_target.module = ModuleName(TestModuleParts)
     /\ \A m \in call.sys_modules : m.name \notin {"tests.test_foo_cases", "tests.cases_foo"})
    => /\ outcome.tag = "raise"
       /\ outcome.exc = "ValueError"
       /\ outcome.names = {"tests.test_foo_cases", "tests.cases_foo"}

(* The whole of s matches the glob, where "*" stands for any characters *)
RECURSIVE GlobMatchesWhole(_, _)
GlobMatchesWhole(glob_str, s) ==
    IF Len(glob_str) = 0 THEN Len(s) = 0
    ELSE IF Head(glob_str) = "*"
    THEN \E k \in 0..Len(s) :
             GlobMatchesWhole(SubSeq(glob_str, 2, Len(glob_str)), SubSeq(s, k + 1, Len(s)))
    ELSE /\ Len(s) > 0
         /\ Head(s) = Head(glob_str)
         /\ GlobMatchesWhole(SubSeq(glob_str, 2, Len(glob_str)), SubSeq(s, 2, Len(s)))

(* C22: with a glob, get_all_cases keeps a case only if the whole of its id *)
(* matches the glob: a glob without "*" keeps only the cases whose id is    *)
(* the glob itself.                                                         *)
C22_GlobMatchesWholeId ==
    (/\ DoneCall("get_all_cases")
     /\ call.glob.tag = "str"
     /\ outcome.tag = "return")
    => \A i \in DOMAIN outcome.val : GlobMatchesWhole(call.glob.v, outcome.val[i].id)

(* The case functions a module gives: its own functions named with the      *)
(* prefix, and those of its case classes that declare no constructor, the   *)
(* static methods left out.                                                 *)
OwnCaseFunctions(module, prefix) ==
    {module.members[i] : i \in {j \in DOMAIN module.members :
        /\ module.members[j].tag = "function"
        /\ module.members[j].func.module = module.name
        /\ StartsWith(module.members[j].func.name, prefix)}}
NestedCaseClasses(module) ==
    {module.members[i] : i \in {j \in DOMAIN module.members :
        /\ module.members[j].tag = "class"
        /\ module.members[j].module = module.name
        /\ Contains(module.members[j].name, "Case")
        /\ ~DeclaresConstructor(module.members[j])}}
NestedCaseFunctions(cls, prefix) ==
    {cls.members[i] : i \in {j \in DOMAIN cls.members :
        /\ ~cls.members[j].static
        /\ StartsWith(cls.members[j].func.name, prefix)}}
MatchingNames(module, prefix) ==
    {m.func.name : m \in OwnCaseFunctions(module, prefix)}
    \cup UNION {{m.func.name : m \in NestedCaseFunctions(cls, prefix)} :
                   cls \in NestedCaseClasses(module)}
PositionsOf(name) == {i \in DOMAIN outcome.val : outcome.val[i].func.name = name}

(* C23: the cases of a nested case class are placed at the line of the      *)
(* class plus i/n and collide with no other case of the module: every case  *)
(* function of the module and of its case classes is in the list exactly    *)
(* once, and the cases of one class keep the order of their lines.          *)
C23_NestedCasesDoNotCollide ==
    (/\ DoneCall("get_all_cases")
     /\ call.cases.tag = "module"
     /\ WellTypedQuery(call)
     /\ call.glob = None /\ call.has_tag = None /\ call.filter = None)
    => /\ outcome.tag = "return"
       /\ \A name \in MatchingNames(call.cases, call.prefix.v) :
              Cardinality(PositionsOf(name)) = 1
       /\ \A i, j \in DOMAIN outcome.val :
              (/\ i < j
               /\ outcome.val[i].func.host_class # None
               /\ outcome.val[i].func.host_class = outcome.val[j].func.host_class)
              => outcome.val[i].line < outcome.val[j].line

(* The number of values that the entries chosen by the k-th combination in  *)
(* the dimensions before d put in front of those of dimension d.            *)
ValuesBefore(k, d) ==
    Len(Flatten([e \in 1..(d - 1) |-> EntryValues(DimNbNames(e), ChosenEntry(k, e))]))

(* C24: in a product that is returned, an entry that is a lazy value in a   *)
(* dimension of nb > 1 names gives each combination that chooses it nb      *)
(* values, the items 0 .. nb - 1 of the lazy value in this order, each of   *)
(* which holds the lazy value as it was given; nothing has been called.     *)
C24_LazyValueSplitNotEvaluated ==
    (DoneCall("cart_product_pytest") /\ outcome.tag = "return") =>
        \A k \in DOMAIN ReturnedProduct : \A d \in 1..NbDims :
            (DimNbNames(d) > 1 /\ is_lazy_value(ChosenEntry(k, d)))
            => /\ Len(CombinationValues(ReturnedProduct[k]))
                      >= ValuesBefore(k, d) + DimNbNames(d)
               /\ SubSeq(CombinationValues(ReturnedProduct[k]),
                         ValuesBefore(k, d) + 1, ValuesBefore(k, d) + DimNbNames(d))
                      = [i \in 1..DimNbNames(d) |-> LazyTupleItem(ChosenEntry(k, d), i - 1)]
               /\ called = {}

(* A lazy value for two names, followed by a dimension of one name *)
C24_Witness ==
    /\ DoneCall("cart_product_pytest")
    /\ call.argnames = <<ArgNames(2), ArgNames(1)>>
    /\ call.argvalues = <<<<DimEntry(2, "special")>>, <<DimEntry(1, "bare")>>>>
    /\ outcome.tag = "return"
    /\ called = {}
    /\ ReturnedProduct =
           <<PyTuple(<<LazyTupleItem(LazyValue("f", None, <<>>), 0),
                       LazyTupleItem(LazyValue("f", None, <<>>), 1), PyInt(1)>>)>>

(* C25: make_test_ids leaves its inputs as they were: after the call the    *)
(* lists given as global_ids, id_marks, argvalues and precomputed_ids hold  *)
(* the elements they held before it, also when an id of pytest.param        *)
(* replaces an id of the result.                                            *)
C25_MakeTestIdsLeavesInputs ==
    DoneCall("make_test_ids") =>
        /\ heap.global_ids = call.global_ids
        /\ heap.id_marks = call.id_marks
        /\ heap.argvalues = call.argvalues
        /\ heap.precomputed_ids = call.precomputed_ids

====
